---- MODULE Spec2Model ----
(***************************************************************************)
(* Model of the bcbb pipeline helper (scripts/bcbb_helpers/                *)
(* run_bcbb_pipeline.py): the configuration override engine, the           *)
(* samplesheet merger, the sample filename decoder and the CASAVA          *)
(* directory-structure setup.                                              *)
(*                                                                         *)
(* Python objects are kept on an explicit heap so that sharing between the *)
(* arguments and the result of override_with_custom_config is visible:     *)
(* a dict or a list is an object at an address, and a value stored in a    *)
(* dict or list is either an immutable atom or a reference to an object.   *)
(***************************************************************************)
EXTENDS Integers, Sequences, FiniteSets, TLC

VARIABLES
    heap,      \* override engine: the Python heap, a sequence of objects
    cur,       \* override engine: reference to the current configuration
    calls,     \* override engine: one record per finished override call
    opc,       \* override engine: position of the calling code
    fparts,    \* filename decoder: the parts the file name was made of
    fname,     \* filename decoder: the file name, a sequence of characters
    parsed,    \* filename decoder: what _parse_sample_filename gave
    sheets,    \* samplesheet merger: the input files, in argument order
    mdest,     \* samplesheet merger: the destination path
    mfile,     \* samplesheet merger: the destination file
    mret,      \* samplesheet merger: what _merge_samplesheets gave
    psamples,  \* directory setup: project['samples'] of the project
    custom_config_ref,  \* directory setup: reference to custom_config
    sidx,      \* directory setup: the sample the override loop is at
    emitted,   \* directory setup: the project configuration file written
    serr,      \* directory setup: the exception that ended the setup
    yaml_config,  \* derivation: the configuration csv2yaml wrote
    bcbb_config,  \* derivation: what bcbb_configuration_from_samplesheet gave
    fetched,   \* duplicate check: what _set_sample_run_list returned
    sample_run_list,  \* duplicate check: the sample runs of the report
    sample_dict,  \* duplicate check: the sample runs by key
    pending,   \* duplicate check: the keys the resolving loop has yet to see
    rkey,      \* duplicate check: the key being resolved
    cand,      \* duplicate check: samples, the records the round presents
    keep,      \* duplicate check: the records kept so far in the round
    ridx,      \* duplicate check: the record of cand the round is at
    answers,   \* duplicate check: the last answer given for each record asked
    rpc,       \* duplicate check: position of sample_status_note
    rerr,      \* duplicate check: the exception that ended it
    only_run,  \* main: the --only-run flag
    only_setup,  \* main: the --only-setup flag
    ignore_casava,  \* main: the --ignore-casava flag
    projects,  \* main: the projects of the flowcell, each its sample count
    pidx,      \* main: the project the directory setup is at
    begun,     \* main: the projects whose setup was begun
    run_arguments,  \* main: the run arguments
    jidx,      \* main: the run argument the submitting loop is at
    mcalls,    \* main: the calls main has made, in order
    mpc,       \* main: position of main
    merr,      \* main: the exception that ended main or the script
    parse_fails,  \* main: parse_casava_directory raises on the flowcell
    no_google_report,  \* script: the --no-google-report flag
    run_info_yaml,  \* script: the file <fcdir>/run_info.yaml
    cwd,       \* process: the working directory
    start_dir, \* run_analysis: the working directory it was entered in
    project_run_arguments,  \* directory setup: the list of that name
    sample_run_arguments    \* directory setup: the list of that name

ovVars == <<heap, cur, calls, opc>>
dcVars == <<fparts, fname, parsed>>
mgVars == <<sheets, mdest, mfile, mret>>
suVars == <<psamples, custom_config_ref, sidx, emitted, serr>>
cfVars == <<yaml_config, bcbb_config>>
rcVars == <<fetched, sample_run_list, sample_dict, pending, rkey, cand, keep, ridx,
            answers, rpc, rerr>>
mnVars == <<only_run, only_setup, ignore_casava, projects, pidx, begun,
            run_arguments, jidx, mcalls, mpc, merr, parse_fails,
            no_google_report, run_info_yaml, cwd, start_dir,
            project_run_arguments, sample_run_arguments>>
\* the parts modelled after the directory setup
exVars == <<cfVars, rcVars, mnVars>>
vars == <<heap, cur, calls, opc, fparts, fname, parsed, sheets, mdest, mfile,
          mret, psamples, custom_config_ref, sidx, emitted, serr,
          yaml_config, bcbb_config, fetched, sample_run_list, sample_dict,
          pending, rkey, cand, keep, ridx, answers, rpc, rerr, only_run,
          only_setup, ignore_casava, projects, pidx, begun, run_arguments,
          jidx, mcalls, mpc, merr, parse_fails, no_google_report,
          run_info_yaml, cwd, start_dir, project_run_arguments,
          sample_run_arguments>>

\* The parts of the program a specification does not run stay as they are.
IdleOverride == heap = <<>> /\ cur = [r |-> 0, a |-> ""] /\ calls = <<>>
                /\ opc = "idle"
NotCalled == [ok |-> FALSE, err |-> "not called", fields |-> <<>>]
IdleDecode == fparts = <<>> /\ fname = <<>> /\ parsed = NotCalled
NoFile == [exists |-> FALSE, header |-> <<>>, rows |-> <<>>]
NotMerged == [ok |-> FALSE, err |-> "not called", path |-> ""]
IdleMerge == sheets = <<>> /\ mdest = "" /\ mfile = NoFile /\ mret = NotMerged
NotWritten == [written |-> FALSE, details |-> <<>>]
IdleSetup == psamples = <<>> /\ custom_config_ref = [r |-> 0, a |-> ""]
             /\ sidx = 0
             /\ emitted = NotWritten /\ serr = ""
NotDerived == [kind |-> "none", a |-> "", d |-> <<>>, l |-> <<>>]
IdleDerive == yaml_config = NotDerived /\ bcbb_config = NotDerived
IdleReconcile ==
    /\ fetched = <<>>
    /\ sample_run_list = <<>> /\ sample_dict = <<>> /\ pending = {}
    /\ rkey = <<>> /\ cand = <<>> /\ keep = <<>> /\ ridx = 0
    /\ answers = <<>> /\ rpc = "idle" /\ rerr = ""
IdleMain ==
    /\ only_run = FALSE /\ only_setup = FALSE /\ ignore_casava = FALSE
    /\ projects = <<>> /\ pidx = 0 /\ begun = {} /\ run_arguments = <<>>
    /\ jidx = 0 /\ mcalls = <<>> /\ mpc = "idle" /\ merr = ""
    /\ parse_fails = FALSE /\ no_google_report = FALSE
    /\ run_info_yaml = "absent" /\ cwd = "" /\ start_dir = ""
    /\ project_run_arguments = <<>> /\ sample_run_arguments = <<>>
IdleRest == IdleDerive /\ IdleReconcile /\ IdleMain

----------------------------------------------------------------------------
(* Bounds of the model. *)

\* longest base configuration (number of lane entries)
MaxLanes == 2
\* longest custom configuration (number of patch entries)
MaxPatch == 2
\* most samplesheets merged in one call
MaxSheets == 2
\* most data rows in the samplesheets of one call, all sheets together
MaxRows == 3
\* most samples of a project
MaxSamples == 2
\* most lane entries of a configuration read from yaml
MaxYamlLanes == 1
\* most barcode entries under one lane of a configuration read from yaml
MaxPlex == 2
\* most sample run records of a report
MaxRuns == 3
\* most projects of a flowcell
MaxProjects == 2
\* most samples of a project of the flowcell main is run on
MaxProjectSamples == 2
\* most run arguments of a list handed to the submitting loop
MaxJobs == 2

----------------------------------------------------------------------------
(* Python values.  A tree is a value written out in full (what == compares *)
(* and what yaml would dump); a heap value is an atom or a reference.      *)

TAtom(s) == [kind |-> "atom", a |-> s, d |-> <<>>, l |-> <<>>]
TList(s) == [kind |-> "list", a |-> "", d |-> <<>>, l |-> s]
TDict(f) == [kind |-> "dict", a |-> "", d |-> f, l |-> <<>>]

Atom(s) == [r |-> 0, a |-> s]
Ref(n) == [r |-> n, a |-> ""]
ListObj(s) == [kind |-> "list", d |-> <<>>, l |-> s]
DictObj(f) == [kind |-> "dict", d |-> f, l |-> <<>>]

\* The sequences over S of length at most n.
SeqUpTo(S, n) == UNION {[1..k -> S] : k \in 0..n}

\* Python evaluates an argument before the call it is passed to: Strict(h, e)
\* is e, with the heap h computed first.
Strict(h, e) == IF Len(h) >= 0 THEN e ELSE e

\* Building a value on the heap (what a literal or yaml.load does): every
\* list and dict of the tree becomes a fresh object.
RECURSIVE AllocTree(_, _)
RECURSIVE AllocList(_, _, _)
RECURSIVE AllocDict(_, _, _, _)
AllocTree(h, t) ==
    IF t.kind = "atom" THEN [h |-> h, v |-> Atom(t.a)]
    ELSE IF t.kind = "list"
    THEN LET r == AllocList(h, t.l, <<>>)
         IN [h |-> Append(r.h, ListObj(r.vs)), v |-> Ref(Len(r.h) + 1)]
    ELSE LET r == AllocDict(h, t.d, DOMAIN t.d, <<>>)
         IN [h |-> Append(r.h, DictObj(r.d)), v |-> Ref(Len(r.h) + 1)]
AllocList(h, ts, acc) ==
    IF ts = <<>> THEN [h |-> h, vs |-> acc]
    ELSE LET r == AllocTree(h, Head(ts))
         IN Strict(r.h, AllocList(r.h, Tail(ts), Append(acc, r.v)))
AllocDict(h, f, keys, acc) ==
    IF keys = {} THEN [h |-> h, d |-> acc]
    ELSE LET k == CHOOSE x \in keys : TRUE
             r == AllocTree(h, f[k])
         IN Strict(r.h, AllocDict(r.h, f, keys \ {k}, (k :> r.v) @@ acc))

\* The value a heap value stands for, followed through every reference.
RECURSIVE Deref(_, _)
Deref(h, v) ==
    IF v.r = 0 THEN TAtom(v.a)
    ELSE LET o == h[v.r]
         IN IF o.kind = "list"
            THEN TList([i \in 1..Len(o.l) |-> Deref(h, o.l[i])])
            ELSE TDict([k \in DOMAIN o.d |-> Deref(h, o.d[k])])

\* Python's == on two heap values.
ValEq(h, v, w) == Deref(h, v) = Deref(h, w)

\* dict.get(k, default)
GetOr(d, k, dflt) == IF k \in DOMAIN d THEN d[k] ELSE dflt

----------------------------------------------------------------------------
(* copy.deepcopy: atoms are returned as they are, every list and dict      *)
(* reachable from the argument is copied once (the memo keeps sharing).    *)

RECURSIVE CopyVal(_, _, _)
RECURSIVE CopyList(_, _, _, _)
RECURSIVE CopyDict(_, _, _, _, _)
CopyVal(h, m, v) ==
    IF v.r = 0 THEN [h |-> h, m |-> m, v |-> v]
    ELSE IF v.r \in DOMAIN m THEN [h |-> h, m |-> m, v |-> Ref(m[v.r])]
    ELSE LET o == h[v.r]
         IN IF o.kind = "list"
            THEN LET r == CopyList(h, m, o.l, <<>>)
                     n == Len(r.h) + 1
                 IN [h |-> Append(r.h, ListObj(r.vs)),
                     m |-> (v.r :> n) @@ r.m, v |-> Ref(n)]
            ELSE LET r == CopyDict(h, m, o.d, DOMAIN o.d, <<>>)
                     n == Len(r.h) + 1
                 IN [h |-> Append(r.h, DictObj(r.d)),
                     m |-> (v.r :> n) @@ r.m, v |-> Ref(n)]
CopyList(h, m, vs, acc) ==
    IF vs = <<>> THEN [h |-> h, m |-> m, vs |-> acc]
    ELSE LET r == CopyVal(h, m, Head(vs))
         IN CopyList(r.h, r.m, Tail(vs), Append(acc, r.v))
CopyDict(h, m, f, keys, acc) ==
    IF keys = {} THEN [h |-> h, m |-> m, d |-> acc]
    ELSE LET k == CHOOSE x \in keys : TRUE
             r == CopyVal(h, m, f[k])
         IN CopyDict(r.h, r.m, f, keys \ {k}, (k :> r.v) @@ acc)

\* A deepcopy that copies nothing: the "copy" is the argument itself.
deepcopy_alias(h, v) == [h |-> h, v |-> v]

deepcopy(h, v) ==
    LET r == CopyVal(h, <<>>, v) IN [h |-> r.h, v |-> r.v]

----------------------------------------------------------------------------
(* override_with_custom_config, statement by statement on the heap.        *)

\* The lane test dropped: no patch entry is skipped as being of another lane.
LaneDiffers_never(h, item, citem) == FALSE

\* item['lane'] != custom_item.get('lane', "")
LaneDiffers(h, item, citem) ==
    ~ValEq(h, h[item.r].d["lane"], GetOr(h[citem.r].d, "lane", Atom("")))

\* Copying the patch keys without overwriting: a key the lane entry already
\* has keeps its value (dict.setdefault instead of item[key] = val).
SetItemKeys_keep(o, cd) ==
    DictObj([k \in DOMAIN o.d \cup (DOMAIN cd \ {"multiplex"}) |->
                IF k \in DOMAIN o.d THEN o.d[k] ELSE cd[k]])

\* The multiplex key copied like the others: the lane entry gets the patch
\* entry's multiplex list.
SetItemKeys_all(o, cd) ==
    DictObj([k \in DOMAIN o.d \cup DOMAIN cd |->
                IF k \in DOMAIN cd THEN cd[k] ELSE o.d[k]])

\* for key, val in custom_item.items(): every key but multiplex is stored in
\* the lane entry; val is stored as it is, a list value stays shared.
SetItemKeys(o, cd) ==
    DictObj([k \in DOMAIN o.d \cup (DOMAIN cd \ {"multiplex"}) |->
                IF k \in DOMAIN cd \ {"multiplex"} THEN cd[k] ELSE o.d[k]])

\* for key, val in custom_sample.items(): sample[key] = val
SetSampleKeys(o, cd) ==
    DictObj([k \in DOMAIN o.d \cup DOMAIN cd |->
                IF k \in DOMAIN cd THEN cd[k] ELSE o.d[k]])

\* X.get(k, []) as the sequence of the list's items
ListItems(h, d, k) == IF k \in DOMAIN d THEN h[d[k].r].l ELSE <<>>

\* The sequence test dropped: the first custom sample always matches.
SequenceMatches_any(h, sample, csample) == TRUE

\* sample['sequence'] == custom_sample.get('sequence', "")
SequenceMatches(h, sample, csample) ==
    ValEq(h, h[sample.r].d["sequence"],
          GetOr(h[csample.r].d, "sequence", Atom("")))

\* The inner loop with its break: the first custom sample of the same
\* sequence (0 when there is none).
FirstSample(h, sample, csamples) ==
    LET hits == {j \in 1..Len(csamples) :
                    SequenceMatches(h, sample, csamples[j])}
    IN IF hits = {} THEN 0
       ELSE CHOOSE j \in hits : \A x \in hits : j <= x

\* for sample in item.get('multiplex', [])
RECURSIVE OverrideSamples(_, _, _)
OverrideSamples(h, samples, citem) ==
    IF samples = <<>> THEN h
    ELSE LET s == Head(samples)
             cs == ListItems(h, h[citem.r].d, "multiplex")
             j == IF "sequence" \in DOMAIN h[s.r].d
                  THEN FirstSample(h, s, cs) ELSE 0
             h1 == IF j = 0 THEN h
                   ELSE [h EXCEPT ![s.r] = SetSampleKeys(h[s.r], h[cs[j].r].d)]
         IN OverrideSamples(h1, Tail(samples), citem)

\* The loop over custom_config without its final break: every patch entry of
\* the same lane is applied, so the last one decides.
FirstCustomItem_last(h, item, citems) ==
    LET hits == {j \in 1..Len(citems) : ~LaneDiffers(h, item, citems[j])}
    IN IF hits = {} THEN 0
       ELSE CHOOSE j \in hits : \A x \in hits : j >= x

\* The loop over custom_config with its continue and its final break: the
\* first patch entry of the same lane (0 when there is none).
FirstCustomItem(h, item, citems) ==
    LET hits == {j \in 1..Len(citems) : ~LaneDiffers(h, item, citems[j])}
    IN IF hits = {} THEN 0
       ELSE CHOOSE j \in hits : \A x \in hits : j <= x

\* A file list of the patch entry added to the lane entry's own instead of
\* replacing it (item[key] = item[key] + val for the key files).
OverrideItem_extend(h, item, custom) ==
    LET citems == h[custom.r].l
        j == FirstCustomItem(h, item, citems)
    IN IF j = 0 THEN h
       ELSE LET cd == h[citems[j].r].d
                od == h[item.r].d
                set == SetItemKeys(h[item.r], cd)
                both == "files" \in DOMAIN od /\ "files" \in DOMAIN cd
                h0 == IF both
                      THEN Append(h, ListObj(h[od["files"].r].l
                                             \o h[cd["files"].r].l))
                      ELSE h
                h1 == [h0 EXCEPT ![item.r] =
                          IF both
                          THEN DictObj([set.d EXCEPT !["files"] = Ref(Len(h0))])
                          ELSE set]
            IN OverrideSamples(h1, ListItems(h1, h1[item.r].d, "multiplex"),
                               citems[j])

\* The body of "for item in new_config" for one item.
OverrideItem(h, item, custom) ==
    LET citems == h[custom.r].l
        j == FirstCustomItem(h, item, citems)
    IN IF j = 0 THEN h
       ELSE LET h1 == [h EXCEPT ![item.r] =
                          SetItemKeys(h[item.r], h[citems[j].r].d)]
            IN OverrideSamples(h1, ListItems(h1, h1[item.r].d, "multiplex"),
                               citems[j])

RECURSIVE OverrideItems(_, _, _)
OverrideItems(h, items, custom) ==
    IF items = <<>> THEN h
    ELSE OverrideItems(OverrideItem(h, Head(items), custom), Tail(items),
                       custom)

\* The whole function.  item['lane'] raises KeyError for a lane entry without
\* a lane key as soon as there is a patch entry to compare it with.
override_with_custom_config(h, org_config, custom_config) ==
    LET c == deepcopy(h, org_config)
        items == c.h[c.v.r].l
        raises == /\ h[custom_config.r].l # <<>>
                  /\ \E i \in 1..Len(items) :
                        "lane" \notin DOMAIN c.h[items[i].r].d
    IN IF raises THEN [h |-> c.h, v |-> Atom("KeyError"), err |-> TRUE]
       ELSE [h |-> OverrideItems(c.h, items, custom_config), v |-> c.v,
             err |-> FALSE]

----------------------------------------------------------------------------
(* The configurations the override engine is run on.                       *)

D2(k1, v1, k2, v2) == TDict((k1 :> v1) @@ (k2 :> v2))
D3(k1, v1, k2, v2, k3, v3) == TDict((k1 :> v1) @@ (k2 :> v2) @@ (k3 :> v3))
Files(f) == TList(<<TAtom(f)>>)

\* Lane entries as csv2yaml and the analysis rule leave them: every entry has
\* a lane, a multiplexed lane has a multiplex list of barcode entries.
BaseLanes ==
    { D3("lane", TAtom("1"), "analysis", TAtom("Align_standard"),
         "genome_build", TAtom("hg19")),
      D3("lane", TAtom("2"), "analysis", TAtom("Align_standard"),
         "files", Files("f1")),
      D3("lane", TAtom("1"), "analysis", TAtom("Align_standard"),
         "multiplex",
         TList(<<D2("sequence", TAtom("ACGT"),
                    "analysis", TAtom("Align_standard")),
                 D2("name", TAtom("n1"),
                    "analysis", TAtom("Align_standard"))>>)),
      D2("lane", TAtom("2"),
         "multiplex",
         TList(<<D2("sequence", TAtom("ACGT"), "files", Files("f1")),
                 D2("sequence", TAtom("TTAG"),
                    "analysis", TAtom("Align_standard"))>>)) }

\* Entries of a custom configuration: with and without a lane, with and
\* without a multiplex list, with sequences the base has and has not.
PatchEntries ==
    { D3("lane", TAtom("1"), "analysis", TAtom("Custom"),
         "files", Files("f2")),
      D3("lane", TAtom("2"), "description", TAtom("d"),
         "multiplex",
         TList(<<D3("sequence", TAtom("ACGT"), "analysis", TAtom("Custom"),
                    "files", Files("f2")),
                 D2("sequence", TAtom("ACGT"), "analysis", TAtom("Late"))>>)),
      D2("lane", TAtom("1"),
         "multiplex",
         TList(<<D2("sequence", TAtom("GGGG"), "analysis", TAtom("Custom")),
                 TDict("analysis" :> TAtom("NoSeq"))>>)),
      D3("lane", TAtom("2"), "files", Files("f3"),
         "multiplex",
         TList(<<D2("sequence", TAtom("ACGT"), "files", Files("f3"))>>)),
      D2("lane", TAtom("3"), "analysis", TAtom("Custom")),
      TDict("analysis" :> TAtom("NoLane")) }

Bases == {TList(s) : s \in SeqUpTo(BaseLanes, MaxLanes)}
Patches == {TList(s) : s \in SeqUpTo(PatchEntries, MaxPatch)}

----------------------------------------------------------------------------
(* A caller of the override engine: it holds a configuration, overrides it *)
(* with a custom configuration and then goes on changing the result.       *)

InitOverride ==
    \E bt \in Bases :
        LET r == AllocTree(<<>>, bt)
        IN /\ heap = r.h
           /\ cur = r.v
           /\ calls = <<>>
           /\ opc = "start"
           /\ IdleDecode /\ IdleMerge /\ IdleSetup /\ IdleRest

\* cur = override_with_custom_config(cur, custom) with a custom configuration
\* drawn from pats; the call record keeps what the arguments were.
CallWith(pats, from, to) ==
    /\ opc = from
    /\ \E pt \in pats :
          LET a == AllocTree(heap, pt)
              r == override_with_custom_config(a.h, cur, a.v)
          IN /\ ~r.err
             /\ heap' = r.h
             /\ cur' = r.v
             /\ calls' = Append(calls,
                    [org |-> cur, custom |-> a.v, res |-> r.v,
                     orgT |-> Deref(a.h, cur), customT |-> pt,
                     resT |-> Deref(r.h, r.v)])
             /\ opc' = to
    /\ UNCHANGED <<dcVars, mgVars, suVars, exVars>>

CallOverride == CallWith(Patches, "start", "called")

LaneRefs(h, cfg) == h[cfg.r].l
BarcodeRefs(h, lane) == ListItems(h, h[lane.r].d, "multiplex")

\* The caller stores a key in a lane entry of the result.
MutateLane ==
    /\ opc = "called"
    /\ \E i \in 1..Len(LaneRefs(heap, cur)), k \in {"analysis", "note"} :
          LET a == LaneRefs(heap, cur)[i].r
          IN heap' = [heap EXCEPT ![a].d = (k :> Atom("changed")) @@ @]
    /\ opc' = "mutated"
    /\ UNCHANGED <<cur, calls, dcVars, mgVars, suVars, exVars>>

\* The caller stores a key in a barcode entry of the result.
MutateBarcode ==
    /\ opc = "called"
    /\ \E i \in 1..Len(LaneRefs(heap, cur)) :
          \E j \in 1..Len(BarcodeRefs(heap, LaneRefs(heap, cur)[i])),
             k \in {"analysis", "note"} :
              LET a == BarcodeRefs(heap, LaneRefs(heap, cur)[i])[j].r
              IN heap' = [heap EXCEPT ![a].d = (k :> Atom("changed")) @@ @]
    /\ opc' = "mutated"
    /\ UNCHANGED <<cur, calls, dcVars, mgVars, suVars, exVars>>

NextOverride == CallOverride \/ MutateLane \/ MutateBarcode

SpecOverride == InitOverride /\ [][NextOverride]_vars

----------------------------------------------------------------------------
(* Reading a call record: the arguments and the result as values.          *)

TGet(t, k) == GetOr(t.d, k, TAtom(""))
TMux(t) == IF "multiplex" \in DOMAIN t.d THEN t.d["multiplex"].l ELSE <<>>
MinOf(S) == IF S = {} THEN 0 ELSE CHOOSE j \in S : \A x \in S : j <= x

\* The first entry of patch whose lane equals the lane of the lane entry.
TMatch(lane, patch) ==
    MinOf({j \in 1..Len(patch.l) : lane.d["lane"] = TGet(patch.l[j], "lane")})

\* The first multiplex entry of the patch entry with the barcode's sequence.
TSeqMatch(bc, pentry) ==
    IF "sequence" \notin DOMAIN bc.d THEN 0
    ELSE MinOf({j \in 1..Len(TMux(pentry)) :
                    bc.d["sequence"] = TGet(TMux(pentry)[j], "sequence")})

\* The addresses of a configuration's own containers: its list, its lane
\* entries, their multiplex lists and their barcode entries.
EntryAddrs(h, cfg) ==
    LET lanes == {LaneRefs(h, cfg)[i] : i \in 1..Len(LaneRefs(h, cfg))}
    IN {cfg.r}
       \cup {l.r : l \in lanes}
       \cup {h[l.r].d["multiplex"].r :
                l \in {x \in lanes : "multiplex" \in DOMAIN h[x.r].d}}
       \cup UNION {{BarcodeRefs(h, l)[j].r : j \in 1..Len(BarcodeRefs(h, l))} :
                      l \in lanes}

----------------------------------------------------------------------------
\* C1: override_with_custom_config is pure.  After every call, and after any
\* later store into a lane or barcode entry of the result, the base argument
\* and the patch argument still have the value they had when the call was
\* made, and the result's list, lane entries, multiplex lists and barcode
\* entries are objects of their own, none of them an object of the base.
C1_OverridePure ==
    \A i \in 1..Len(calls) :
        LET c == calls[i]
        IN /\ Deref(heap, c.org) = c.orgT
           /\ Deref(heap, c.custom) = c.customT
           /\ EntryAddrs(heap, c.res) \cap EntryAddrs(heap, c.org) = {}

\* A call that changed something, followed by a store that changed the result.
C1_Witness ==
    /\ opc = "mutated"
    /\ calls[1].resT # calls[1].orgT
    /\ Deref(heap, cur) # calls[1].resT
    /\ TMux(calls[1].orgT.l[1]) # <<>>

\* C2: a patch none of whose entries has the lane of a base entry gives a
\* result equal to the base; and in every call each base lane entry whose
\* lane no patch entry has is in the result, at its place, unchanged.
C2_NoMatchIsIdentity ==
    \A i \in 1..Len(calls) :
        LET c == calls[i]
        IN /\ Len(c.resT.l) = Len(c.orgT.l)
           /\ \A n \in 1..Len(c.orgT.l) :
                 TMatch(c.orgT.l[n], c.customT) = 0
                     => c.resT.l[n] = c.orgT.l[n]
           /\ (\A n \in 1..Len(c.orgT.l) : TMatch(c.orgT.l[n], c.customT) = 0)
                 => c.resT = c.orgT

\* A non-empty patch applied to a non-empty base with which it shares no lane,
\* and a call in which one lane is matched and another is not.
C2_Witness ==
    /\ Len(calls) = 1
    /\ Len(calls[1].customT.l) = 2
    /\ Len(calls[1].orgT.l) = 2
    /\ \A n \in 1..2 : TMatch(calls[1].orgT.l[n], calls[1].customT) = 0
    /\ TMux(calls[1].orgT.l[1]) # <<>>

\* C3: in a base lane entry matched by a patch entry, every key of the patch
\* entry other than multiplex has the patch's value (a key the base lacks is
\* added, a key it has is overwritten), and every key the patch entry does
\* not have keeps its base value; the entry has no other keys.
C3_MatchedLaneKeys ==
    \A i \in 1..Len(calls) :
        LET c == calls[i]
        IN \A n \in 1..Len(c.orgT.l) :
              LET b == c.orgT.l[n]
                  j == TMatch(b, c.customT)
                  r == c.resT.l[n]
              IN j # 0 =>
                   LET p == c.customT.l[j]
                   IN /\ \A k \in DOMAIN p.d \ {"multiplex"} :
                            k \in DOMAIN r.d /\ r.d[k] = p.d[k]
                      /\ \A k \in DOMAIN b.d \ DOMAIN p.d :
                            k \in DOMAIN r.d /\ r.d[k] = b.d[k]
                      /\ DOMAIN r.d = DOMAIN b.d \cup (DOMAIN p.d \ {"multiplex"})

\* A matched lane where the patch overwrites a key with another value, adds a
\* key the base lacks and leaves a key only the base has.
C3_Witness ==
    /\ Len(calls) = 1
    /\ \E n \in 1..Len(calls[1].orgT.l) :
          LET b == calls[1].orgT.l[n]
              j == TMatch(b, calls[1].customT)
          IN /\ j # 0
             /\ \E k \in DOMAIN b.d \cap DOMAIN calls[1].customT.l[j].d :
                   k # "lane" /\ b.d[k] # calls[1].customT.l[j].d[k]
             /\ DOMAIN calls[1].customT.l[j].d \ DOMAIN b.d # {}
             /\ DOMAIN b.d \ DOMAIN calls[1].customT.l[j].d # {}

\* C4: in a matched lane, a base barcode entry with a sequence key gets every
\* key of the first patch multiplex entry of that sequence, each value
\* replaced whole (a list is replaced, not merged), and keeps its other keys;
\* a barcode entry without a sequence key, or whose sequence the patch entry's
\* multiplex list does not have, is unchanged.
C4_MatchedBarcodeKeys ==
    \A i \in 1..Len(calls) :
        LET c == calls[i]
        IN \A n \in 1..Len(c.orgT.l) :
              LET b == c.orgT.l[n]
                  j == TMatch(b, c.customT)
                  r == c.resT.l[n]
              IN j # 0 =>
                   /\ Len(TMux(r)) = Len(TMux(b))
                   /\ \A s \in 1..Len(TMux(b)) :
                         LET bb == TMux(b)[s]
                             rb == TMux(r)[s]
                             q == TSeqMatch(bb, c.customT.l[j])
                         IN IF q = 0 THEN rb = bb
                            ELSE LET pb == TMux(c.customT.l[j])[q]
                                 IN /\ DOMAIN rb.d = DOMAIN bb.d \cup DOMAIN pb.d
                                    /\ \A k \in DOMAIN pb.d : rb.d[k] = pb.d[k]
                                    /\ \A k \in DOMAIN bb.d \ DOMAIN pb.d :
                                          rb.d[k] = bb.d[k]

\* A matched lane with a barcode whose list-valued key the patch replaces, and
\* with a barcode the patch leaves alone.
C4_Witness ==
    /\ Len(calls) = 1
    /\ \E n \in 1..Len(calls[1].orgT.l) :
          LET b == calls[1].orgT.l[n]
              j == TMatch(b, calls[1].customT)
          IN /\ j # 0
             /\ \E s \in 1..Len(TMux(b)) :
                   LET q == TSeqMatch(TMux(b)[s], calls[1].customT.l[j])
                   IN /\ q # 0
                      /\ "files" \in DOMAIN TMux(b)[s].d
                      /\ "files" \in DOMAIN TMux(calls[1].customT.l[j])[q].d
                      /\ TMux(calls[1].resT.l[n])[s].d["files"]
                            # TMux(b)[s].d["files"]
             /\ \E s \in 1..Len(TMux(b)) :
                   TSeqMatch(TMux(b)[s], calls[1].customT.l[j]) = 0

----------------------------------------------------------------------------
(* Two overrides in a row: the result of the first is the base of the      *)
(* second (override(override(base, P1), P2)).                              *)

ChainEntries ==
    { D3("lane", TAtom("1"), "analysis", TAtom("Custom"),
         "files", Files("f2")),
      D3("lane", TAtom("1"), "analysis", TAtom("Project"),
         "files", Files("f3")),
      D3("lane", TAtom("2"), "analysis", TAtom("Project"),
         "multiplex",
         TList(<<D2("sequence", TAtom("ACGT"),
                    "analysis", TAtom("Project"))>>)) }

ChainPatches == {TList(s) : s \in SeqUpTo(ChainEntries, MaxPatch)}

\* The bases of the chain: a flat lane and a multiplexed lane.
ChainLanes ==
    { D3("lane", TAtom("1"), "analysis", TAtom("Align_standard"),
         "genome_build", TAtom("hg19")),
      D3("lane", TAtom("2"), "analysis", TAtom("Align_standard"),
         "multiplex",
         TList(<<D2("sequence", TAtom("ACGT"), "files", Files("f1")),
                 D2("sequence", TAtom("TTAG"),
                    "analysis", TAtom("Align_standard"))>>)) }

ChainBases == {TList(s) : s \in SeqUpTo(ChainLanes, MaxLanes)}

InitChain ==
    \E bt \in ChainBases :
        LET r == AllocTree(<<>>, bt)
        IN /\ heap = r.h
           /\ cur = r.v
           /\ calls = <<>>
           /\ opc = "start"
           /\ IdleDecode /\ IdleMerge /\ IdleSetup /\ IdleRest

CallFirst == CallWith(ChainPatches, "start", "first")
CallSecond == CallWith(ChainPatches, "first", "second")

NextChain == CallFirst \/ CallSecond

SpecChain == InitChain /\ [][NextChain]_vars

\* C5: last applied wins.  After override(override(base, P1), P2), a key
\* (other than multiplex, which is never copied to a lane) that P1 and P2
\* both set on a lane of the base has P2's value on that lane.  The entry of
\* a patch that sets keys on a lane is its first entry of that lane.
C5_LastAppliedWins ==
    Len(calls) = 2 =>
        LET base == calls[1].orgT
            P1 == calls[1].customT
            P2 == calls[2].customT
            final == calls[2].resT
        IN /\ calls[2].orgT = calls[1].resT
           /\ Len(final.l) = Len(base.l)
           /\ \A n \in 1..Len(base.l) :
                 LET j1 == TMatch(base.l[n], P1)
                     j2 == TMatch(base.l[n], P2)
                 IN (j1 # 0 /\ j2 # 0) =>
                       \A k \in (DOMAIN P1.l[j1].d \cap DOMAIN P2.l[j2].d)
                                   \ {"multiplex"} :
                           /\ k \in DOMAIN final.l[n].d
                           /\ final.l[n].d[k] = P2.l[j2].d[k]

\* Two patches that give one key of one lane two different values, the key
\* being one the base has with a third value.
C5_Witness ==
    /\ Len(calls) = 2
    /\ \E n \in 1..Len(calls[1].orgT.l) :
          LET b == calls[1].orgT.l[n]
              j1 == TMatch(b, calls[1].customT)
              j2 == TMatch(b, calls[2].customT)
          IN /\ j1 # 0
             /\ j2 # 0
             /\ "analysis" \in DOMAIN b.d
             /\ "analysis" \in DOMAIN calls[1].customT.l[j1].d
             /\ "analysis" \in DOMAIN calls[2].customT.l[j2].d
             /\ calls[1].customT.l[j1].d["analysis"]
                   # calls[2].customT.l[j2].d["analysis"]
             /\ calls[1].customT.l[j1].d["analysis"] # b.d["analysis"]
             /\ calls[2].resT.l[n].d["analysis"] # calls[1].resT.l[n].d["analysis"]

----------------------------------------------------------------------------
(* _parse_sample_filename.  A string is the sequence of its characters.    *)

Digits == {"0", "1", "2", "3", "4", "5", "6", "7", "8", "9"}
DigitVal == ("0" :> 0) @@ ("1" :> 1) @@ ("2" :> 2) @@ ("3" :> 3) @@ ("4" :> 4)
            @@ ("5" :> 5) @@ ("6" :> 6) @@ ("7" :> 7) @@ ("8" :> 8) @@ ("9" :> 9)
IndexChars == {"A", "C", "G", "T", "-"}
NoIndexStr == <<"N", "o", "I", "n", "d", "e", "x">>
UndeterminedStr == <<"U", "n", "d", "e", "t", "e", "r", "m", "i", "n", "e", "d">>
FastqExt == <<".", "f", "a", "s", "t", "q">>

\* fields = ['SampleID','Index','Lane','Read','Chunk']
fields == <<"SampleID", "Index", "Lane", "Read", "Chunk">>

\* A parsed piece: an int or the captured text.
PInt(n) == [t |-> "int", n |-> n, s |-> <<>>]
PStr(g) == [t |-> "str", n |-> 0, s |-> g]

RECURSIVE DigitsToInt(_)
DigitsToInt(g) ==
    IF g = <<>> THEN 0
    ELSE 10 * DigitsToInt(SubSeq(g, 1, Len(g) - 1)) + DigitVal[g[Len(g)]]

\* The texts int() accepts among those the pattern can capture: an optional
\* sign and at least one digit.
IsIntText(g) ==
    LET body == IF g # <<>> /\ g[1] \in {"+", "-"} THEN Tail(g) ELSE g
    IN body # <<>> /\ \A i \in 1..Len(body) : body[i] \in Digits
IntOf(g) ==
    IF g[1] = "-" THEN 0 - DigitsToInt(Tail(g))
    ELSE IF g[1] = "+" THEN DigitsToInt(Tail(g))
    ELSE DigitsToInt(g)

\* The conversion left out: every piece stays the captured text.
ConvertGroup_str(g) == PStr(g)

\* try: p = int(g)  except: p = g
ConvertGroup(g) == IF IsIntText(g) THEN PInt(IntOf(g)) ELSE PStr(g)

\* s has the text lit at position p.
HasAt(s, p, lit) ==
    /\ p >= 1
    /\ p + Len(lit) - 1 <= Len(s)
    /\ SubSeq(s, p, p + Len(lit) - 1) = lit

IsDigit(c) == c \in Digits
NotUnderscore(c) == c # "_"

\* The end of the longest run from position p of digits (\d+, digits = TRUE)
\* or of characters other than "_" (digits = FALSE); p - 1 when there is
\* none.
RunEnd(s, p, digits) ==
    LET ends == {q \in (p - 1)..Len(s) :
                    \A i \in p..q : IF digits THEN IsDigit(s[i])
                                     ELSE NotUnderscore(s[i])}
    IN CHOOSE q \in ends : \A x \in ends : x <= q

\* The alternation left out: any non-empty token is taken.
IsIndexToken_any(tok) == tok # <<>>

\* (NoIndex|Undetermined|[ACGT\-]+)
IsIndexToken(tok) ==
    \/ tok = NoIndexStr
    \/ tok = UndeterminedStr
    \/ tok # <<>> /\ \A i \in 1..Len(tok) : tok[i] \in IndexChars

\* The groups of the pattern when group 1 is the first i characters, <<>> when
\* the rest of the pattern does not match from there:
\* _(NoIndex|Undetermined|[ACGT\-]+)_L(\d+)_R(\d)_(\d+)\.fastq.*$
GroupsAfter(s, i) ==
    LET tEnd == RunEnd(s, i + 2, FALSE)
        tok == SubSeq(s, i + 2, tEnd)
        lEnd == RunEnd(s, tEnd + 3, TRUE)
        cEnd == RunEnd(s, lEnd + 5, TRUE)
    IN IF /\ HasAt(s, i + 1, <<"_">>)
          /\ IsIndexToken(tok)
          /\ HasAt(s, tEnd + 1, <<"_", "L">>)
          /\ lEnd >= tEnd + 3
          /\ HasAt(s, lEnd + 1, <<"_", "R">>)
          /\ lEnd + 3 <= Len(s) /\ IsDigit(s[lEnd + 3])
          /\ HasAt(s, lEnd + 4, <<"_">>)
          /\ cEnd >= lEnd + 5
          /\ HasAt(s, cEnd + 1, FastqExt)
       THEN <<SubSeq(s, 1, i), tok, SubSeq(s, tEnd + 3, lEnd),
              <<s[lEnd + 3]>>, SubSeq(s, lEnd + 5, cEnd)>>
       ELSE <<>>

\* m = re.match(pattern, fname); m.groups(): group 1 is (.+?), the shortest
\* non-empty start after which the rest matches.  <<>> stands for m is None.
re_match(s) ==
    LET starts == {i \in 1..Len(s) : GroupsAfter(s, i) # <<>>}
    IN IF starts = {} THEN <<>>
       ELSE GroupsAfter(s, CHOOSE i \in starts : \A x \in starts : i <= x)

_parse_sample_filename(fn) ==
    LET groups == re_match(fn)
        pcs == [i \in 1..Len(groups) |-> ConvertGroup(groups[i])]
    IN IF Len(pcs) # Len(fields)
       THEN [ok |-> FALSE, err |-> "ValueError", fields |-> <<>>]
       ELSE [ok |-> TRUE, err |-> "",
             fields |-> [k \in {fields[i] : i \in 1..Len(fields)} |->
                            pcs[CHOOSE i \in 1..Len(fields) : fields[i] = k]]]

(* The file names the decoder is given: <sample-id>_<index>_L<lane>_R<read>_ *)
(* <chunk>.fastq<rest>, built from these parts.                             *)
SampleIds ==
    { <<"S">>, <<"P", "_", "1">>, <<"1", "2">>, <<"S", "_", "A", "C">>,
      <<"S", "_", "A", "_", "L", "1">> }
IndexTokens ==
    { NoIndexStr, UndeterminedStr, <<"A", "C", "G", "T">>, <<"A", "-", "T">>,
      <<"-">>, <<"A", "N">>, <<"1", "2">> }
LaneTexts == { <<"0", "0", "3">>, <<"1">>, <<"1", "0">> }
ReadTexts == { <<"1">>, <<"2">> }
ChunkTexts == { <<"0", "0", "1">>, <<"1", "2">> }
RestTexts == { <<>>, <<".", "g", "z">> }

FileName(p) ==
    p.sample \o <<"_">> \o p.index \o <<"_", "L">> \o p.lane \o <<"_", "R">>
    \o p.read \o <<"_">> \o p.chunk \o FastqExt \o p.rest

InitDecode ==
    /\ fparts \in [sample : SampleIds, index : IndexTokens, lane : LaneTexts,
                   read : ReadTexts, chunk : ChunkTexts, rest : RestTexts]
    /\ fname = FileName(fparts)
    /\ parsed = NotCalled
    /\ IdleOverride /\ IdleMerge /\ IdleSetup /\ IdleRest

Decode ==
    /\ parsed = NotCalled
    /\ parsed' = _parse_sample_filename(fname)
    /\ UNCHANGED <<fparts, fname, ovVars, mgVars, suVars, exVars>>

NextDecode == Decode

SpecDecode == InitDecode /\ [][NextDecode]_vars

\* C10: a file name <sample-id>_<index>_L<lane>_R<read>_<chunk>.fastq<rest>
\* whose index is NoIndex, Undetermined or a run of A, C, G, T and - decodes
\* to exactly the five fields SampleID, Index, Lane, Read, Chunk, with Index
\* the index token as text and Lane, Read, Chunk the integers their digits
\* denote (L003 gives 3).
C10_DecodeFields ==
    (parsed # NotCalled /\ IsIndexToken(fparts.index)) =>
        /\ parsed.ok
        /\ DOMAIN parsed.fields = {"SampleID", "Index", "Lane", "Read", "Chunk"}
        /\ parsed.fields["Index"] = PStr(fparts.index)
        /\ parsed.fields["Lane"] = PInt(DigitsToInt(fparts.lane))
        /\ parsed.fields["Read"] = PInt(DigitVal[fparts.read[1]])
        /\ parsed.fields["Chunk"] = PInt(DigitsToInt(fparts.chunk))

\* L003 decoded to 3 in a name whose sample id has an underscore.
C10_Witness ==
    /\ parsed.ok
    /\ fparts.lane = <<"0", "0", "3">>
    /\ fparts.sample = <<"S", "_", "A", "C">>
    /\ fparts.index = <<"A", "-", "T">>
    /\ parsed.fields["Lane"] = PInt(3)
    /\ parsed.fields["Chunk"] = PInt(12)

\* The language of the pattern, said without the matching order: the name
\* splits as <g1>_<index>_L<digits>_R<digit>_<digits>.fastq<anything> with g1
\* not empty.
AllDigits(g) == g # <<>> /\ \A i \in 1..Len(g) : g[i] \in Digits
IndexAlternative(tok) ==
    \/ tok = NoIndexStr
    \/ tok = UndeterminedStr
    \/ tok # <<>> /\ \A i \in 1..Len(tok) : tok[i] \in {"A", "C", "G", "T", "-"}
InPatternLanguage(s) ==
    \E a \in 1..Len(s) :
        /\ HasAt(s, a + 1, <<"_">>)
        /\ \E b \in (a + 2)..Len(s) :
              /\ IndexAlternative(SubSeq(s, a + 2, b))
              /\ HasAt(s, b + 1, <<"_", "L">>)
              /\ \E c \in (b + 3)..Len(s) :
                    /\ AllDigits(SubSeq(s, b + 3, c))
                    /\ HasAt(s, c + 1, <<"_", "R">>)
                    /\ c + 3 <= Len(s) /\ s[c + 3] \in Digits
                    /\ HasAt(s, c + 4, <<"_">>)
                    /\ \E d \in (c + 5)..Len(s) :
                          /\ AllDigits(SubSeq(s, c + 5, d))
                          /\ HasAt(s, d + 1, FastqExt)

\* C11: _parse_sample_filename raises ValueError for every file name that is
\* not in the language of the pattern and raises for no name that is; what
\* it returns always has exactly the five fields.
C11_InvalidNameRaises ==
    parsed # NotCalled =>
        /\ ~InPatternLanguage(fname) =>
              (~parsed.ok /\ parsed.err = "ValueError" /\ parsed.fields = <<>>)
        /\ InPatternLanguage(fname) => parsed.ok
        /\ parsed.ok => Cardinality(DOMAIN parsed.fields) = 5

\* A name with the index token AN, which the pattern rejects, has raised.
C11_Witness ==
    /\ parsed # NotCalled
    /\ fparts.index = <<"A", "N">>
    /\ ~InPatternLanguage(fname)
    /\ parsed.err = "ValueError"

\* C12: only Lane, Read and Chunk are converted: SampleID and Index of every
\* decoded name are the captured texts, also when the text is all digits.
C12_OnlyNumericGroupsConverted ==
    (parsed # NotCalled /\ parsed.ok) =>
        /\ parsed.fields["SampleID"].t = "str"
        /\ parsed.fields["Index"].t = "str"
        /\ parsed.fields["Lane"].t = "int"
        /\ parsed.fields["Read"].t = "int"
        /\ parsed.fields["Chunk"].t = "int"

----------------------------------------------------------------------------
(* _merge_samplesheets.  A samplesheet file is its header line and its     *)
(* data lines, each line the sequence of its cells; a cell of a data line  *)
(* is the sequence of its characters.                                      *)

\* The byte values Python 2 compares str by.
Ord == ("0" :> 48) @@ ("1" :> 49) @@ ("2" :> 50) @@ ("3" :> 51) @@ ("4" :> 52)
       @@ ("5" :> 53) @@ ("6" :> 54) @@ ("7" :> 55) @@ ("8" :> 56)
       @@ ("9" :> 57) @@ ("A" :> 65) @@ ("C" :> 67) @@ ("G" :> 71)
       @@ ("T" :> 84) @@ ("a" :> 97) @@ ("b" :> 98)

\* str < str
RECURSIVE StrLess(_, _)
StrLess(a, b) ==
    IF b = <<>> THEN FALSE
    ELSE IF a = <<>> THEN TRUE
    ELSE IF a[1] = b[1] THEN StrLess(Tail(a), Tail(b))
    ELSE Ord[a[1]] < Ord[b[1]]

\* The lanes compared as numbers.
KeyLess_numeric(d, e) ==
    \/ DigitsToInt(d["Lane"]) < DigitsToInt(e["Lane"])
    \/ d["Lane"] = e["Lane"] /\ StrLess(d["Index"], e["Index"])

\* (d['Lane'],d['Index']) < (e['Lane'],e['Index']), tuples of str
KeyLess(d, e) ==
    \/ StrLess(d["Lane"], e["Lane"])
    \/ d["Lane"] = e["Lane"] /\ StrLess(d["Index"], e["Index"])

\* sorted(data, key=...): a stable sort, here by insertion; a row goes
\* behind every row that is not greater.
InsertRow(srt, d) ==
    LET before == {i \in 1..Len(srt) : KeyLess(d, srt[i])}
        at == IF before = {} THEN Len(srt) + 1
              ELSE CHOOSE i \in before : \A x \in before : i <= x
    IN SubSeq(srt, 1, at - 1) \o <<d>> \o SubSeq(srt, at, Len(srt))
RECURSIVE SortFrom(_, _)
SortFrom(srt, data) ==
    IF data = <<>> THEN srt
    ELSE SortFrom(InsertRow(srt, Head(data)), Tail(data))
sorted(data) == SortFrom(<<>>, data)

\* csv.DictReader: a data line as a dict keyed by the sheet's own header.
RowDict(header, line) ==
    [k \in {header[i] : i \in 1..Len(header)} |->
        line[CHOOSE i \in 1..Len(header) : header[i] = k]]
ReadRows(sheet) ==
    [i \in 1..Len(sheet.rows) |-> RowDict(sheet.header, sheet.rows[i])]

\* A reader that keeps one row of those that are equal.
RECURSIVE Dedup(_)
Dedup(rows) ==
    IF rows = <<>> THEN <<>>
    ELSE LET rest == Dedup(Tail(rows))
         IN IF \E i \in 1..Len(rest) : rest[i] = Head(rows)
            THEN rest ELSE <<Head(rows)>> \o rest
ReadAll_dedup(shs) ==
    LET RECURSIVE cat(_)
        cat(ss) == IF ss = <<>> THEN <<>> ELSE ReadRows(Head(ss)) \o cat(Tail(ss))
    IN Dedup(cat(shs))

\* for samplesheet in samplesheets: ... data.append(row)
RECURSIVE ReadAll(_)
ReadAll(shs) ==
    IF shs = <<>> THEN <<>> ELSE ReadRows(Head(shs)) \o ReadAll(Tail(shs))

\* header after the loop: the fieldnames of the last sheet read, [] for none.
LastHeader(shs) == IF shs = <<>> THEN <<>> ELSE shs[Len(shs)].header

\* csv.DictWriter._dict_to_list: the cells of a row under the fieldnames, ''
\* for a field the row does not have.
DictToList(header, d) ==
    [i \in 1..Len(header) |-> IF header[i] \in DOMAIN d THEN d[header[i]] ELSE <<>>]

\* The function: what the destination file holds afterwards and what the
\* call gives.  The file is opened for writing and the header written before
\* the rows are sorted (KeyError for a row without Lane or Index) and before
\* DictWriter checks them (ValueError for a row with a field that is not in
\* the fieldnames); writerows converts every row before it writes one.
_merge_samplesheets(samplesheets, merged_samplesheet) ==
    LET data == ReadAll(samplesheets)
        header == LastHeader(samplesheets)
        names == {header[i] : i \in 1..Len(header)}
        headed == [exists |-> TRUE, header |-> header, rows |-> <<>>]
    IN IF \E i \in 1..Len(data) : {"Lane", "Index"} \ DOMAIN data[i] # {}
       THEN [file |-> headed,
             ret |-> [ok |-> FALSE, err |-> "KeyError", path |-> ""]]
       ELSE IF \E i \in 1..Len(data) : DOMAIN data[i] \ names # {}
       THEN [file |-> headed,
             ret |-> [ok |-> FALSE, err |-> "ValueError", path |-> ""]]
       ELSE LET srt == sorted(data)
            IN [file |-> [headed EXCEPT !.rows =
                             [i \in 1..Len(srt) |-> DictToList(header, srt[i])]],
                ret |-> [ok |-> TRUE, err |-> "", path |-> merged_samplesheet]]

(* The samplesheets that are merged. *)
SheetRows ==
    { [Lane |-> <<"1", "0">>, Index |-> <<"C">>, SampleID |-> <<"a">>],
      [Lane |-> <<"2">>, Index |-> <<"A">>, SampleID |-> <<"a">>],
      [Lane |-> <<"1", "0">>, Index |-> <<"A">>, SampleID |-> <<"a">>],
      [Lane |-> <<"1", "0">>, Index |-> <<"C">>, SampleID |-> <<"b">>] }
Headers ==
    { <<"Lane", "Index", "SampleID">>, <<"Lane", "Index">>,
      <<"SampleID", "Lane", "Index">> }
Destinations == {"proj/SampleSheet.csv", "tmp/merged.csv"}

\* The file of a sheet with the header hd and the rows rs.
SheetFile(hd, rs) ==
    [header |-> hd, rows |-> [i \in 1..Len(rs) |-> DictToList(hd, rs[i])]]

InitMerge ==
    /\ \E all \in SeqUpTo(SheetRows, MaxRows), n \in 0..MaxSheets :
          \E hs \in [1..n -> Headers], cuts \in [0..n -> 0..Len(all)] :
              /\ cuts[0] = 0
              /\ cuts[n] = Len(all)
              /\ \A i \in 1..n : cuts[i - 1] <= cuts[i]
              /\ sheets = [i \in 1..n |->
                              SheetFile(hs[i], SubSeq(all, cuts[i - 1] + 1, cuts[i]))]
    /\ mdest \in Destinations
    /\ mfile = NoFile
    /\ mret = NotMerged
    /\ IdleOverride /\ IdleDecode /\ IdleSetup /\ IdleRest

Merge ==
    /\ mret = NotMerged
    /\ LET r == _merge_samplesheets(sheets, mdest)
       IN mfile' = r.file /\ mret' = r.ret
    /\ UNCHANGED <<sheets, mdest, ovVars, dcVars, suVars, exVars>>

NextMerge == Merge

SpecMerge == InitMerge /\ [][NextMerge]_vars

----------------------------------------------------------------------------
(* Reading a merge: the data lines of the inputs in concatenation order    *)
(* and the lines of the destination file.                                  *)

RECURSIVE InputLines(_)
InputLines(shs) ==
    IF shs = <<>> THEN <<>> ELSE Head(shs).rows \o InputLines(Tail(shs))
SameHeaders == \A i, j \in 1..Len(sheets) : sheets[i].header = sheets[j].header
Count(sq, x) == Cardinality({i \in 1..Len(sq) : sq[i] = x})
Range(sq) == {sq[i] : i \in 1..Len(sq)}
\* The cell of a line under a column of the header hd.
Cell(hd, line, col) == line[CHOOSE i \in 1..Len(hd) : hd[i] = col]
\* (Lane, Index) of line x before that of line y, as raw strings.
PairLess(hd, x, y) ==
    \/ StrLess(Cell(hd, x, "Lane"), Cell(hd, y, "Lane"))
    \/ /\ Cell(hd, x, "Lane") = Cell(hd, y, "Lane")
       /\ StrLess(Cell(hd, x, "Index"), Cell(hd, y, "Index"))
SameKey(hd, x, y) ==
    /\ Cell(hd, x, "Lane") = Cell(hd, y, "Lane")
    /\ Cell(hd, x, "Index") = Cell(hd, y, "Index")
\* The lines of sq that have the key of line x, in their order.
WithKey(hd, sq, x) ==
    LET Same(y) == SameKey(hd, x, y) IN SelectSeq(sq, Same)

C8_MergeOrder ==
    mret.ok =>
        /\ \A i, j \in 1..Len(mfile.rows) :
              i < j => ~PairLess(mfile.header, mfile.rows[j], mfile.rows[i])
        /\ SameHeaders =>
              \A x \in Range(mfile.rows) :
                  WithKey(mfile.header, mfile.rows, x)
                     = WithKey(mfile.header, InputLines(sheets), x)

\* Lane 10 written before lane 2, read in the other order, and two lines of
\* one (Lane, Index) from different sheets kept in reading order although
\* the sample of the first is the greater string.
C8_Witness ==
    /\ mret.ok
    /\ Len(sheets) = 2
    /\ sheets[1].header = <<"Lane", "Index", "SampleID">>
    /\ sheets[1].rows = << <<<<"2">>, <<"A">>, <<"a">>>>,
                           <<<<"1", "0">>, <<"C">>, <<"b">>>> >>
    /\ sheets[2] = [header |-> <<"Lane", "Index", "SampleID">>,
                    rows |-> << <<<<"1", "0">>, <<"C">>, <<"a">>>> >>]
    /\ mfile.rows = << <<<<"1", "0">>, <<"C">>, <<"b">>>>,
                       <<<<"1", "0">>, <<"C">>, <<"a">>>>,
                       <<<<"2">>, <<"A">>, <<"a">>>> >>

\* C9: merging sheets whose headers differ fails; no merged sheet is given
\* back for them.
C9_DifferingHeadersFail ==
    (mret # NotMerged /\ ~SameHeaders) => ~mret.ok

----------------------------------------------------------------------------
(* setup_analysis_directory_structure, for one project of the flowcell:    *)
(* the project configuration is derived, overridden once per sample with   *)
(* the sample's files, overridden with the custom configuration and        *)
(* written out.                                                            *)

\* The names bound at module level in run_bcbb_pipeline.py: imports,
\* constants, functions and the test class.
ModuleNames ==
    { "drmaa", "os", "sys", "glob", "time", "yaml", "subprocess", "copy",
      "tempfile", "argparse", "csv", "re", "bcbio", "safe_makedir",
      "load_config", "report", "CASAVA_OUTPUT_DIR",
      "PARALLELL_ANALYSIS_SCRIPT", "DISTRIBUTED_ANALYSIS_SCRIPT",
      "PROCESS_YAML_SCRIPT", "PROCESS_YAML", "FC_SPECIFIC_AMPQ", "main",
      "run_analysis", "setup_analysis", "setup_analysis_directory_structure",
      "create_project_analysis_structure", "copy_project_analysis_files",
      "reduce_samplesheet_to_project", "_sample_files_custom_config",
      "_parse_sample_filename", "_merge_samplesheets", "_copy_basecall_stats",
      "override_with_custom_config", "_setup_config_files",
      "bcbb_configuration_from_samplesheet", "do_rsync",
      "parse_casava_directory", "has_casava_output", "_get_samplesheet",
      "report_to_gdocs", "unittest", "random", "datetime", "shutil", "string",
      "mock", "utils", "td", "SamplesheetTest" }

\* The names _sample_files_custom_config binds itself.
SampleCfgLocals == {"sample_files", "fields", "config", "sample_config"}

Raised(e) == [err |-> e, config |-> TAtom("")]

\* _sample_files_custom_config: sample_files[0] is decoded (IndexError for an
\* empty list, ValueError for a name that does not decode); the next
\* statement reads the name pcs, which neither the function nor the module
\* binds, so it raises NameError and the statements after it never run.
_sample_files_custom_config(sample_files) ==
    IF sample_files = <<>> THEN Raised("IndexError")
    ELSE IF ~_parse_sample_filename(sample_files[1]).ok
    THEN Raised("ValueError")
    ELSE IF "pcs" \notin SampleCfgLocals \cup ModuleNames
    THEN Raised("NameError")
    ELSE Raised("unbound")

\* The keys parse_casava_directory gives a sample.
CasavaSample(fs) ==
    [sample_dir |-> "Sample_A", sample_name |-> "A", files |-> fs,
     samplesheet |-> "SampleSheet.csv"]

\* The fastq files of a sample directory.
SampleFileLists ==
    { <<>>,
      <<FileName([sample |-> <<"S">>, index |-> <<"A", "C", "G", "T">>,
                  lane |-> <<"0", "0", "1">>, read |-> <<"1">>,
                  chunk |-> <<"0", "0", "1">>, rest |-> <<".", "g", "z">>])>>,
      <<FileName([sample |-> <<"S">>, index |-> NoIndexStr,
                  lane |-> <<"0", "0", "2">>, read |-> <<"1">>,
                  chunk |-> <<"0", "0", "1">>, rest |-> <<".", "g", "z">>])>> }

CasavaSamples == {CasavaSample(fs) : fs \in SampleFileLists}

\* os.path.join(project_dir,sample_name,fc_run_id,sf)
SamplePath(sf) == <<"p", "/", "A", "/", "r", "/">> \o sf

InitSetup ==
    /\ \E bt \in ChainBases, ct \in ChainPatches :
          \E base \in {AllocTree(<<>>, bt)} :
              \E cust \in {AllocTree(base.h, ct)} :
                  heap = cust.h /\ cur = base.v /\ custom_config_ref = cust.v
    /\ psamples \in SeqUpTo(CasavaSamples, MaxSamples)
    /\ sidx = 1
    /\ calls = <<>>
    /\ opc = "samples"
    /\ emitted = NotWritten
    /\ serr = ""
    /\ IdleDecode /\ IdleMerge /\ IdleRest

\* project_config = override_with_custom_config(project_config, c), the
\* call recorded
OverrideCur(c, to) ==
    LET r == override_with_custom_config(heap, cur, c)
    IN /\ heap' = r.h
       /\ cur' = r.v
       /\ calls' = Append(calls,
              [org |-> cur, custom |-> c, res |-> r.v,
               orgT |-> Deref(heap, cur), customT |-> Deref(heap, c),
               resT |-> Deref(r.h, r.v)])
       /\ opc' = to

Abort(e) ==
    /\ serr' = e
    /\ opc' = "raised"
    /\ UNCHANGED <<heap, cur, calls, sidx>>

\* One turn of the loop of lines 199-202.  sample['sample_files'] raises
\* KeyError for a sample that has no such key.
SampleOverride ==
    /\ opc = "samples"
    /\ sidx <= Len(psamples)
    /\ LET sample == psamples[sidx]
       IN IF "sample_files" \notin DOMAIN sample THEN Abort("KeyError")
          ELSE LET c == _sample_files_custom_config(
                            [i \in 1..Len(sample["sample_files"]) |->
                                SamplePath(sample["sample_files"][i])])
               IN IF c.err # "" THEN Abort(c.err)
                  ELSE LET a == AllocTree(heap, c.config)
                       IN /\ LET r == override_with_custom_config(a.h, cur, a.v)
                             IN /\ heap' = r.h
                                /\ cur' = r.v
                                /\ calls' = Append(calls,
                                      [org |-> cur, custom |-> a.v, res |-> r.v,
                                       orgT |-> Deref(a.h, cur),
                                       customT |-> c.config,
                                       resT |-> Deref(r.h, r.v)])
                          /\ sidx' = sidx + 1
                          /\ UNCHANGED <<opc, serr>>
    /\ UNCHANGED <<psamples, custom_config_ref, emitted, dcVars, mgVars, exVars>>

\* Line 204, after the loop.
ProjectOverride ==
    /\ opc = "samples"
    /\ sidx > Len(psamples)
    /\ OverrideCur(custom_config_ref, "overridden")
    /\ UNCHANGED <<psamples, custom_config_ref, sidx, emitted, serr, dcVars,
                   mgVars, exVars>>

\* Line 205: _setup_config_files dumps {'details': configs, ...}.
EmitConfig ==
    /\ opc = "overridden"
    /\ emitted' = [written |-> TRUE, details |-> Deref(heap, cur)]
    /\ opc' = "emitted"
    /\ UNCHANGED <<heap, cur, calls, psamples, custom_config_ref, sidx, serr,
                   dcVars, mgVars, exVars>>

NextSetup == SampleOverride \/ ProjectOverride \/ EmitConfig

SpecSetup == InitSetup /\ [][NextSetup]_vars

\* C6: for a project the overrides run in sequence: once per sample with a
\* patch that carries the sample's files, each taking the previous result as
\* its base, then once with the custom configuration; the configuration of
\* that last override is written, so that a key both set has the
\* project-level value.
C6_SampleThenProject ==
    opc \in {"emitted", "raised"} =>
        /\ emitted.written
        /\ Len(calls) = Len(psamples) + 1
        /\ \A i \in 1..Len(psamples) :
              \E n \in 1..Len(calls[i].customT.l) :
                  \/ "files" \in DOMAIN calls[i].customT.l[n].d
                  \/ \E m \in 1..Len(TMux(calls[i].customT.l[n])) :
                        "files" \in DOMAIN TMux(calls[i].customT.l[n])[m].d
        /\ \A i \in 1..(Len(calls) - 1) : calls[i + 1].orgT = calls[i].resT
        /\ calls[Len(calls)].custom = custom_config_ref
        /\ emitted.details = calls[Len(calls)].resT
        /\ \A n \in 1..Len(emitted.details.l) :
              LET j == TMatch(emitted.details.l[n], Deref(heap, custom_config_ref))
              IN j # 0 =>
                   \A k \in DOMAIN Deref(heap, custom_config_ref).l[j].d
                               \ {"multiplex"} :
                       emitted.details.l[n].d[k]
                          = Deref(heap, custom_config_ref).l[j].d[k]

----------------------------------------------------------------------------
(* bcbb_configuration_from_samplesheet: the configuration csv2yaml wrote   *)
(* is loaded and every lane entry and barcode entry is given its analysis. *)

\* The default left out: every entry gets Align_standard.
analysis_for_standard(entry) == TAtom("Align_standard")

\* if entry.get('genome_build','') == 'hg19': 'Align_standard_seqcap'
\* else: 'Align_standard'
analysis_for(entry) ==
    IF GetOr(entry.d, "genome_build", TAtom("")) = TAtom("hg19")
    THEN TAtom("Align_standard_seqcap")
    ELSE TAtom("Align_standard")

\* entry['analysis'] = ...
SetAnalysis(entry) ==
    TDict([k \in DOMAIN entry.d \cup {"analysis"} |->
              IF k = "analysis" THEN analysis_for(entry) ELSE entry.d[k]])

\* for plex in lane.get('multiplex',[])
SetPlexAnalysis(lane) ==
    IF "multiplex" \notin DOMAIN lane.d THEN lane
    ELSE TDict([lane.d EXCEPT !["multiplex"] =
                   TList([i \in 1..Len(@.l) |-> SetAnalysis(@.l[i])])])

bcbb_configuration_from_samplesheet(config) ==
    TList([i \in 1..Len(config.l) |->
              SetPlexAnalysis(SetAnalysis(config.l[i]))])

\* What csv2yaml may have written: entries with the genome build hg19, with
\* another one and with none, lanes with and without an analysis of their
\* own and with and without a multiplex list.
GenomeBuilds == {"hg19", "hg18", "none"}
WithGenome(f, g) ==
    IF g = "none" THEN f ELSE ("genome_build" :> TAtom(g)) @@ f
YamlPlexes ==
    {TDict(WithGenome("sequence" :> TAtom("ACGT"), g)) : g \in GenomeBuilds}
YamlFlatLanes ==
    {TDict(WithGenome(f, g)) :
        f \in {"lane" :> TAtom("1"),
               ("lane" :> TAtom("1")) @@ ("analysis" :> TAtom("Minimal"))},
        g \in GenomeBuilds}
YamlLanes ==
    YamlFlatLanes \cup
    {TDict(("multiplex" :> TList(ps)) @@ ln.d) :
        ln \in YamlFlatLanes, ps \in SeqUpTo(YamlPlexes, MaxPlex)}
YamlConfigs == {TList(ls) : ls \in SeqUpTo(YamlLanes, MaxYamlLanes)}

InitDerive ==
    /\ yaml_config \in YamlConfigs
    /\ bcbb_config = NotDerived
    /\ IdleOverride /\ IdleDecode /\ IdleMerge /\ IdleSetup /\ IdleReconcile
    /\ IdleMain

Derive ==
    /\ bcbb_config = NotDerived
    /\ bcbb_config' = bcbb_configuration_from_samplesheet(yaml_config)
    /\ UNCHANGED <<yaml_config, ovVars, dcVars, mgVars, suVars, rcVars,
                   mnVars>>

NextDerive == Derive

SpecDerive == InitDerive /\ [][NextDerive]_vars

\* The entries of a derived configuration: its lanes and their barcodes.
LaneEntries(c) == {c.l[i] : i \in 1..Len(c.l)}
PlexEntries(c) ==
    UNION {{ln.d["multiplex"].l[j] : j \in 1..Len(ln.d["multiplex"].l)} :
              ln \in {x \in LaneEntries(c) : "multiplex" \in DOMAIN x.d}}
HasBuild(e, g) == "genome_build" \in DOMAIN e.d /\ e.d["genome_build"] = TAtom(g)

\* C13: after bcbb_configuration_from_samplesheet every lane entry and every
\* barcode entry has an analysis: Align_standard_seqcap exactly when the
\* entry's own genome_build is hg19, Align_standard otherwise (an absent
\* genome_build included), whatever the genome_build of the lane above it.
C13_AnalysisFromGenomeBuild ==
    bcbb_config # NotDerived =>
        /\ Len(bcbb_config.l) = Len(yaml_config.l)
        /\ \A e \in LaneEntries(bcbb_config) \cup PlexEntries(bcbb_config) :
              /\ "analysis" \in DOMAIN e.d
              /\ HasBuild(e, "hg19")
                    => e.d["analysis"] = TAtom("Align_standard_seqcap")
              /\ ~HasBuild(e, "hg19")
                    => e.d["analysis"] = TAtom("Align_standard")

\* A lane of build hg19 with one barcode of build hg18 and one of none.
C13_Witness ==
    /\ bcbb_config # NotDerived
    /\ \E ln \in LaneEntries(bcbb_config) :
          /\ HasBuild(ln, "hg19")
          /\ ln.d["analysis"] = TAtom("Align_standard_seqcap")
          /\ "multiplex" \in DOMAIN ln.d
          /\ Len(ln.d["multiplex"].l) = 2
          /\ HasBuild(ln.d["multiplex"].l[1], "hg18")
          /\ ln.d["multiplex"].l[1].d["analysis"] = TAtom("Align_standard")
          /\ "genome_build" \notin DOMAIN ln.d["multiplex"].l[2].d
          /\ ln.d["multiplex"].l[2].d["analysis"] = TAtom("Align_standard")

----------------------------------------------------------------------------
(* The duplicate check of sample_status_note (report/delivery_notes.py):   *)
(* the sample runs are grouped by key, the operator is asked about every   *)
(* record of a group of several, round after round, and the first record   *)
(* of every group makes the new sample run list.                           *)

PNone == [t |-> "none", n |-> 0, s |-> <<>>]

RECURSIVE IntToDigits(_)
IntToDigits(n) ==
    LET last == CHOOSE c \in Digits : DigitVal[c] = n % 10
    IN IF n < 10 THEN <<last>> ELSE Append(IntToDigits(n \div 10), last)

\* "{}".format(v)
FormatValue(v) ==
    IF v.t = "str" THEN v.s
    ELSE IF v.t = "none" THEN <<"N", "o", "n", "e">>
    ELSE IF v.n < 0 THEN <<"-">> \o IntToDigits(0 - v.n)
    ELSE IntToDigits(v.n)

\* "{}_{}_{}_{}".format(date, flowcell, lane, sequence)
SampleKey(rec) ==
    FormatValue(rec.date) \o <<"_">> \o FormatValue(rec.flowcell) \o <<"_">>
    \o FormatValue(rec.lane) \o <<"_">> \o FormatValue(rec.sequence)

\* sample_dict after the grouping loop: every key with the records of the
\* list that have it, in list order.
GroupByKey(runs) ==
    [k \in {SampleKey(runs[i]) : i \in 1..Len(runs)} |->
        SelectSeq(runs, LAMBDA r : SampleKey(r) = k)]

\* The loop condition left out: one round always settles a group.
LoopAgain_never(kept) == FALSE

\* while len(samples) > 1
LoopAgain(kept) == Len(kept) > 1

\* The assignment left out: the next round presents the same records.
NextCandidates_same(presented, kept) == presented

\* samples = keep
NextCandidates(presented, kept) == kept

\* The sample runs statusdb may hold for a flowcell: the same date and
\* flowcell, a lane (a string, or a number in a document that stores it so)
\* and a barcode sequence (None for a lane without one); the _id tells the
\* documents apart.
RunKeys ==
    { [lane |-> PStr(<<"1">>), sequence |-> PStr(<<"A">>)],
      [lane |-> PStr(<<"2">>), sequence |-> PStr(<<"A">>)],
      [lane |-> PStr(<<"2">>), sequence |-> PNone],
      [lane |-> PInt(2), sequence |-> PNone] }
SampleRun(i, k) ==
    [id |-> i, date |-> PInt(12), flowcell |-> PStr(<<"F">>),
     lane |-> k.lane, sequence |-> k.sequence]
SampleRunLists ==
    {[i \in 1..Len(ks) |-> SampleRun(i, ks[i])] : ks \in SeqUpTo(RunKeys, MaxRuns)}

\* The orders in which a dict may hand out the keys in S.
Orders(S) ==
    {f \in [1..Cardinality(S) -> S] :
        \A i, j \in 1..Cardinality(S) : i # j => f[i] # f[j]}

InitReconcile ==
    /\ fetched \in SampleRunLists
    /\ sample_run_list = fetched
    /\ sample_dict = <<>>
    /\ pending = {}
    /\ rkey = <<>> /\ cand = <<>> /\ keep = <<>> /\ ridx = 0
    /\ answers = <<>>
    /\ rpc = "start"
    /\ rerr = ""
    /\ IdleOverride /\ IdleDecode /\ IdleMerge /\ IdleSetup /\ IdleDerive
    /\ IdleMain

rcOthers == <<fetched, ovVars, dcVars, mgVars, suVars, cfVars, mnVars>>

\* Lines 309-325: an empty list ends the report early, any other list is
\* grouped by key.
GroupRuns ==
    /\ rpc = "start"
    /\ IF Len(sample_run_list) = 0
       THEN rpc' = "noreport" /\ UNCHANGED <<sample_dict, pending>>
       ELSE /\ sample_dict' = GroupByKey(sample_run_list)
            /\ pending' = DOMAIN GroupByKey(sample_run_list)
            /\ rpc' = "keys"
    /\ UNCHANGED <<sample_run_list, rkey, cand, keep, ridx, answers, rerr,
                   rcOthers>>

\* Lines 327-330: a key with one record; the loop goes on to the next key.
SkipUnique ==
    /\ rpc = "keys"
    /\ \E k \in pending :
          /\ Len(sample_dict[k]) = 1
          /\ pending' = pending \ {k}
    /\ UNCHANGED <<sample_run_list, sample_dict, rkey, cand, keep, ridx,
                   answers, rpc, rerr, rcOthers>>

\* Lines 333-335: a key with several records; the first round begins.
StartResolve ==
    /\ rpc = "keys"
    /\ \E k \in pending :
          /\ Len(sample_dict[k]) # 1
          /\ rkey' = k
          /\ cand' = sample_dict[k]
          /\ IF LoopAgain(sample_dict[k])
             THEN rpc' = "ask" /\ keep' = <<>> /\ ridx' = 1
             ELSE rpc' = "assign" /\ UNCHANGED <<keep, ridx>>
    /\ UNCHANGED <<sample_run_list, sample_dict, pending, answers, rerr,
                   rcOthers>>

Answer(yes) ==
    /\ rpc = "ask"
    /\ ridx <= Len(cand)
    /\ keep' = IF yes THEN Append(keep, cand[ridx]) ELSE keep
    /\ answers' = [i \in DOMAIN answers \cup {cand[ridx].id} |->
                      IF i = cand[ridx].id THEN yes ELSE answers[i]]
    /\ ridx' = ridx + 1
    /\ UNCHANGED <<sample_run_list, sample_dict, pending, rkey, cand, rpc,
                   rerr, rcOthers>>

\* Lines 336-345, query_yes_no answered yes: keep.append(sample)
AnswerKeep == Answer(TRUE)

\* Lines 336-343, query_yes_no answered no.
AnswerDrop == Answer(FALSE)

\* Line 346 and the loop test of line 334: samples = keep, another round
\* while more than one record is left.
EndRound ==
    /\ rpc = "ask"
    /\ ridx > Len(cand)
    /\ cand' = NextCandidates(cand, keep)
    /\ IF LoopAgain(NextCandidates(cand, keep))
       THEN keep' = <<>> /\ ridx' = 1 /\ UNCHANGED rpc
       ELSE rpc' = "assign" /\ UNCHANGED <<keep, ridx>>
    /\ UNCHANGED <<sample_run_list, sample_dict, pending, rkey, answers, rerr,
                   rcOthers>>

\* Line 348: sample_dict[key] = samples
AssignGroup ==
    /\ rpc = "assign"
    /\ sample_dict' = [sample_dict EXCEPT ![rkey] = cand]
    /\ pending' = pending \ {rkey}
    /\ rpc' = "keys"
    /\ UNCHANGED <<sample_run_list, rkey, cand, keep, ridx, answers, rerr,
                   rcOthers>>

\* Line 350: sample_run_list = [s[0] for s in sample_dict.values()], in the
\* order the dict hands the groups out; s[0] of an empty group raises
\* IndexError.
Populate ==
    /\ rpc = "keys"
    /\ pending = {}
    /\ IF \E k \in DOMAIN sample_dict : sample_dict[k] = <<>>
       THEN rpc' = "raised" /\ rerr' = "IndexError"
            /\ UNCHANGED sample_run_list
       ELSE /\ \E o \in Orders(DOMAIN sample_dict) :
                  sample_run_list' =
                      [i \in 1..Len(o) |-> sample_dict[o[i]][1]]
            /\ rpc' = "done"
            /\ UNCHANGED rerr
    /\ UNCHANGED <<sample_dict, pending, rkey, cand, keep, ridx, answers,
                   rcOthers>>

NextReconcile ==
    \/ GroupRuns
    \/ SkipUnique
    \/ StartResolve
    \/ AnswerKeep
    \/ AnswerDrop
    \/ EndRound
    \/ AssignGroup
    \/ Populate

SpecReconcile == InitReconcile /\ [][NextReconcile]_vars

\* The program goes on to its next statement, and the operator answers
\* every question put.
SpecReconcileLive ==
    InitReconcile /\ [][NextReconcile]_vars /\ WF_vars(NextReconcile)

Ended == rpc \in {"done", "raised"}
Ids(recs) == {recs[i].id : i \in 1..Len(recs)}
\* The records fetched with the key of record i, and whether i is alone.
GroupOf(i) ==
    {j \in 1..Len(fetched) : SampleKey(fetched[j]) = SampleKey(fetched[i])}
IsUnique(i) == GroupOf(i) = {i}
Returned == {sample_run_list[j] : j \in 1..Len(sample_run_list)}
LastKept(i) ==
    fetched[i].id \in DOMAIN answers /\ answers[fetched[i].id]
LastDropped(i) ==
    fetched[i].id \in DOMAIN answers /\ ~answers[fetched[i].id]

\* C14: a record whose key no other record has is asked no question and is,
\* unchanged, in the reconciled sample run list.
C14_UniquePassesThrough ==
    Ended =>
        \A i \in 1..Len(fetched) :
            IsUnique(i) =>
                /\ fetched[i].id \notin DOMAIN answers
                /\ rpc = "done"
                /\ fetched[i] \in Returned

\* C15: of a group of N records with one key at most N are returned and
\* every one the operator's last answer kept is returned; of a group of one
\* exactly that record is returned.
C15_ReturnsTheKept ==
    Ended =>
        \A i \in 1..Len(fetched) :
            /\ rpc = "done"
            /\ Cardinality({r \in Returned : SampleKey(r) = SampleKey(fetched[i])})
                  <= Cardinality(GroupOf(i))
            /\ LastKept(i) => fetched[i] \in Returned
            /\ IsUnique(i) =>
                  {r \in Returned : SampleKey(r) = SampleKey(fetched[i])}
                      = {fetched[i]}

\* C16: what survives of a duplicate group is what the operator kept: a
\* record answered drop is not in the reconciled list, and a group whose
\* records were all dropped gives no record while the check still ends
\* without an error.
C16_SurvivorsAreTheKept ==
    Ended =>
        /\ rpc = "done"
        /\ \A i \in 1..Len(fetched) :
              /\ LastDropped(i) => fetched[i] \notin Returned
              /\ (\A j \in GroupOf(i) : LastDropped(j)) =>
                    \A r \in Returned : SampleKey(r) # SampleKey(fetched[i])

AtRoundEnd == rpc = "ask" /\ ridx > Len(cand)

\* What a step of the resolving loop may do: a question is about the record
\* of the candidates the round is at; at the end of a round the kept
\* records, no more than were presented, become the candidates, and a new
\* round follows exactly when two or more were kept.
RoundStep ==
    /\ (rpc = "ask" /\ ~AtRoundEnd) =>
          /\ DOMAIN answers' \subseteq DOMAIN answers \cup {cand[ridx].id}
          /\ cand' = cand
          /\ Ids(keep') \subseteq Ids(keep) \cup {cand[ridx].id}
    /\ AtRoundEnd =>
          /\ cand' = keep
          /\ Ids(cand') \subseteq Ids(cand)
          /\ Len(cand') <= Len(cand)
          /\ (Len(keep) >= 2) <=> (rpc' = "ask")
          /\ rpc' = "ask" => (rkey' = rkey /\ keep' = <<>> /\ ridx' = 1)

\* C17: the resolving loop presents in each round the records kept in the
\* round before, the candidates never grow, a round that keeps at most one
\* record ends the loop, and the check goes on for ever only if round after
\* round keeps two or more.
C17_ResolveConverges ==
    /\ [][RoundStep]_vars
    /\ (AtRoundEnd /\ Len(keep) <= 1) ~> (rpc # "ask")
    /\ <>(rpc \in {"done", "raised", "noreport"})
          \/ []<>(AtRoundEnd /\ Len(keep) >= 2)

\* A second round over the two records kept of a group of three.
C17_Witness ==
    /\ rpc = "ask"
    /\ Len(sample_dict[rkey]) = 3
    /\ Len(cand) = 2
    /\ ridx = 2
    /\ Ids(cand) \subseteq {i \in DOMAIN answers : answers[i]}

----------------------------------------------------------------------------
(* main: the analysis is set up unless --only-run is given and the jobs    *)
(* are submitted unless --only-setup is given.  A project of the flowcell  *)
(* is the number of its samples.                                           *)

\* The try left out: a directory that does not parse counts by its projects.
has_casava_output_uncaught(fails, projs) == Len(projs) > 0

\* has_casava_output: True when parse_casava_directory returns a structure
\* with at least one project; an exception it raises is caught and the
\* answer is False.
has_casava_output(fails, projs) ==
    IF fails THEN FALSE ELSE Len(projs) > 0

\* [os.getcwd(),post_process_config_file,fc_dir,run_info_file]
InitialArguments ==
    [work_dir |-> "cwd", post_process |-> "config", fc_dir |-> "fcdir",
     run_info |-> "run_info"]

\* What setup_analysis returns: the work directory it changed into and the
\* post_process file it wrote for the flowcell's queue.
PlainArguments ==
    [work_dir |-> "base_dir/run_name", post_process |-> "config-SN-A",
     fc_dir |-> "fcdir", run_info |-> "run_info"]

CallOf(fn, args) == [fn |-> fn, args |-> args]

\* if not only_run
DoSetup(flag) == ~flag

\* The test left out: the jobs are submitted whatever the flag.
DoSubmit_always(flag) == TRUE

\* if not only_setup
DoSubmit(flag) == ~flag

\* How the body of the project loop (lines 183-241) may end for a project of
\* n samples: reading or writing a file may fail at any point; with a
\* sample, line 201 raises KeyError unless something failed before it;
\* without one the project configuration is written and the sample loop of
\* line 209 has no turn.
ProjectOutcomes(n) ==
    IF n > 0 THEN {"IOError", "KeyError"} ELSE {"IOError", ""}

InitMain ==
    /\ only_run \in BOOLEAN
    /\ only_setup \in BOOLEAN
    /\ ignore_casava \in BOOLEAN
    /\ projects \in SeqUpTo(0..MaxProjectSamples, MaxProjects)
    /\ pidx = 0
    /\ begun = {}
    /\ run_arguments = <<InitialArguments>>
    /\ jidx = 1
    /\ mcalls = <<>>
    /\ mpc = "start"
    /\ merr = ""
    /\ parse_fails \in BOOLEAN
    /\ no_google_report \in BOOLEAN
    /\ run_info_yaml \in {"absent", "present"}
    /\ cwd = InitialArguments.work_dir
    /\ start_dir = ""
    /\ project_run_arguments = <<>>
    /\ sample_run_arguments = <<>>
    /\ IdleOverride /\ IdleDecode /\ IdleMerge /\ IdleSetup /\ IdleDerive
    /\ IdleReconcile

mnLists == <<project_run_arguments, sample_run_arguments>>

\* Lines 206 and 241: the run arguments made for a project and for a
\* sample, [<work directory>, <post-process config>, <work directory>,
\* <run_info>] in the project's and in the sample's flowcell directory.
ProjectArguments ==
    [work_dir |-> "project_dir", post_process |-> "config",
     fc_dir |-> "project_dir", run_info |-> "run_info"]

SampleArguments ==
    [work_dir |-> "dst_sample_dir", post_process |-> "config",
     fc_dir |-> "dst_sample_dir", run_info |-> "run_info"]

mnOthers ==
    <<only_run, only_setup, ignore_casava, projects, parse_fails,
      no_google_report, run_info_yaml, ovVars, dcVars, mgVars, suVars, cfVars,
      rcVars>>

\* Lines 37-39: setup_analysis_directory_structure is called.
CallDirectorySetup ==
    /\ mpc = "start"
    /\ has_casava_output(parse_fails, projects) /\ ~ignore_casava
    /\ DoSetup(only_run)
    /\ mcalls' = Append(mcalls,
                        CallOf("setup_analysis_directory_structure", <<>>))
    /\ pidx' = 1
    /\ project_run_arguments' = <<>>
    /\ sample_run_arguments' = <<>>
    /\ mpc' = "projects"
    /\ UNCHANGED <<begun, run_arguments, jidx, merr, cwd, start_dir, mnOthers>>

\* One turn of the project loop of setup_analysis_directory_structure; an
\* exception leaves the function and main.
ProjectSetup ==
    /\ mpc = "projects"
    /\ pidx <= Len(projects)
    /\ begun' = begun \cup {pidx}
    /\ \E e \in ProjectOutcomes(projects[pidx]) :
          IF e # ""
          THEN /\ mpc' = "raised" /\ merr' = e
               /\ UNCHANGED <<pidx, mnLists>>
          ELSE /\ pidx' = pidx + 1
               /\ project_run_arguments' =
                     Append(project_run_arguments, ProjectArguments)
               /\ sample_run_arguments' =
                     sample_run_arguments \o
                     [i \in 1..projects[pidx] |-> SampleArguments]
               /\ UNCHANGED <<mpc, merr>>
    /\ UNCHANGED <<run_arguments, jidx, mcalls, cwd, start_dir, mnOthers>>

\* Line 243 and line 39: return sample_run_arguments.
ReturnDirectorySetup ==
    /\ mpc = "projects"
    /\ pidx > Len(projects)
    /\ run_arguments' = sample_run_arguments
    /\ mpc' = "submit"
    /\ UNCHANGED <<pidx, begun, jidx, mcalls, merr, cwd, start_dir, mnLists,
                   mnOthers>>

\* Lines 41-43: setup_analysis is called; it raises when a path is missing
\* (before it changes directory) or a file cannot be read or written (after
\* it has changed into the work directory), and returns from the work
\* directory.
CallPlainSetup ==
    /\ mpc = "start"
    /\ ~(has_casava_output(parse_fails, projects) /\ ~ignore_casava)
    /\ DoSetup(only_run)
    /\ mcalls' = Append(mcalls, CallOf("setup_analysis", <<>>))
    /\ \E e \in {"", "Exception"} :
          IF e # ""
          THEN /\ mpc' = "raised" /\ merr' = e /\ UNCHANGED run_arguments
               /\ cwd' \in {cwd, PlainArguments.work_dir}
          ELSE /\ run_arguments' = <<PlainArguments>>
               /\ cwd' = PlainArguments.work_dir
               /\ mpc' = "submit"
               /\ UNCHANGED merr
    /\ UNCHANGED <<pidx, begun, jidx, start_dir, mnLists, mnOthers>>

\* Lines 38 and 42 with only_run: no setup function is called.
SkipSetup ==
    /\ mpc = "start"
    /\ ~DoSetup(only_run)
    /\ mpc' = "submit"
    /\ UNCHANGED <<pidx, begun, run_arguments, jidx, mcalls, merr, cwd,
                   start_dir, mnLists, mnOthers>>

\* How run_analysis may end: it returns, os.chdir(work_dir) raises OSError,
\* load_config raises IOError, the cluster module is not found (ImportError)
\* or submit_job raises.
RunOutcomes == {"", "OSError", "IOError", "ImportError", "Exception"}

\* run_analysis entered in the directory dir: start_dir is dir; the process
\* is in work_dir from line 57 on and back in start_dir only after line 77,
\* which a raised exception does not reach.
run_analysis(dir, work_dir, e) ==
    [start_dir |-> dir,
     cwd |-> IF e \in {"", "OSError"} THEN dir ELSE work_dir,
     err |-> e]

\* Lines 45-47: run_analysis(*arguments); an exception it raises leaves main.
SubmitJob ==
    /\ mpc = "submit"
    /\ DoSubmit(only_setup)
    /\ jidx <= Len(run_arguments)
    /\ mcalls' = Append(mcalls, CallOf("run_analysis", <<run_arguments[jidx]>>))
    /\ \E e \in RunOutcomes :
          LET r == run_analysis(cwd, run_arguments[jidx].work_dir, e)
          IN /\ start_dir' = r.start_dir
             /\ cwd' = r.cwd
             /\ IF r.err # ""
                THEN mpc' = "raised" /\ merr' = r.err /\ UNCHANGED jidx
                ELSE jidx' = jidx + 1 /\ UNCHANGED <<mpc, merr>>
    /\ UNCHANGED <<pidx, begun, run_arguments, mnLists, mnOthers>>

\* main returns.
Finish ==
    /\ mpc = "submit"
    /\ ~DoSubmit(only_setup) \/ jidx > Len(run_arguments)
    /\ mpc' = "done"
    /\ UNCHANGED <<pidx, begun, run_arguments, jidx, mcalls, merr, cwd,
                   start_dir, mnLists, mnOthers>>

\* def main(run_id, config_file, archive_dir, analysis_dir,
\*          run_info_file=None, dryrun=False) of report_to_gdocs.py
ReportMainParams ==
    [required |-> <<"run_id", "config_file", "archive_dir", "analysis_dir">>,
     optional |-> <<"run_info_file", "dryrun">>]

\* A call with the positional arguments given binds the parameters when
\* every required one gets a value and none is left over; otherwise Python
\* raises TypeError before the body is entered.
CallBinds(given, params) ==
    /\ Len(given) >= Len(params.required)
    /\ Len(given) <= Len(params.required) + Len(params.optional)

\* if os.path.exists(run_info): os.rename(run_info, run_info + ".bak")
RenameRunInfo(file) == IF file = "present" THEN "renamed" ELSE file

\* report_to_gdocs(fc_dir, post_process_config_file): the rename and the
\* call report.main(<run id>, post_process_config_file).
report_to_gdocs(file) ==
    LET given == <<"basename(fcdir)", "config">>
    IN [file |-> RenameRunInfo(file),
        call |-> CallOf("report.main", given),
        err |-> IF CallBinds(given, ReportMainParams) THEN "" ELSE "TypeError"]

mnScript ==
    <<only_run, only_setup, ignore_casava, projects, parse_fails,
      no_google_report, pidx, begun, run_arguments, jidx, cwd, start_dir,
      project_run_arguments, sample_run_arguments,
      ovVars, dcVars, mgVars, suVars, cfVars, rcVars>>

\* Lines 573-574 without --no-google-report: report_to_gdocs runs after main
\* has returned; when the call of report.main binds, the report is made or
\* one of its assertions fails.
ReportToGdocs ==
    /\ mpc = "done"
    /\ ~no_google_report
    /\ LET r == report_to_gdocs(run_info_yaml)
       IN /\ run_info_yaml' = r.file
          /\ mcalls' = Append(mcalls, r.call)
          /\ IF r.err # ""
             THEN mpc' = "report_raised" /\ merr' = r.err
             ELSE \E e \in {"", "AssertionError"} :
                     /\ mpc' = IF e = "" THEN "reported" ELSE "report_raised"
                     /\ merr' = e
    /\ UNCHANGED mnScript

\* Line 573 with --no-google-report: the script ends.
ExitWithoutReport ==
    /\ mpc = "done"
    /\ no_google_report
    /\ mpc' = "exit"
    /\ UNCHANGED <<mcalls, merr, run_info_yaml, mnScript>>

NextMain ==
    \/ CallDirectorySetup
    \/ ProjectSetup
    \/ ReturnDirectorySetup
    \/ CallPlainSetup
    \/ SkipSetup
    \/ SubmitJob
    \/ Finish
    \/ ReportToGdocs
    \/ ExitWithoutReport

SpecMain == InitMain /\ [][NextMain]_vars

MainEnded == mpc \in {"done", "raised"}
Called(fn) == {i \in 1..Len(mcalls) : mcalls[i].fn = fn}

\* C18: a failure in the setup of one project or sample does not end the
\* batch: every other project is still set up and main goes on to submit
\* the jobs of the run arguments that were produced.
C18_FailureIsolated ==
    (MainEnded /\ Called("setup_analysis_directory_structure") # {}) =>
        /\ begun = 1..Len(projects)
        /\ ~only_setup => jidx > Len(run_arguments)

SetupCalls ==
    Called("setup_analysis_directory_structure") \cup Called("setup_analysis")

C19_FailureLeavesDestination ==
    (mret # NotMerged /\ ~mret.ok) => mfile = NoFile

\* C21: when main sets up, it calls setup_analysis_directory_structure
\* exactly when the flowcell directory parses with at least one project and
\* ignore_casava is not given, and setup_analysis in every other case; a
\* directory that does not parse raises nothing out of has_casava_output,
\* it counts as having no CASAVA output.
C21_CasavaSelectsSetup ==
    (mpc # "start" /\ ~only_run) =>
        /\ Called("setup_analysis_directory_structure") # {}
              <=> (~parse_fails /\ Len(projects) > 0 /\ ~ignore_casava)
        /\ Called("setup_analysis") # {}
              <=> ~(~parse_fails /\ Len(projects) > 0 /\ ~ignore_casava)
        /\ parse_fails => mcalls[1] = CallOf("setup_analysis", <<>>)

\* A flowcell with projects whose directory does not parse was set up the
\* pre-CASAVA way.
C21_Witness ==
    /\ mpc = "done"
    /\ parse_fails /\ projects # <<>> /\ ~ignore_casava /\ ~only_run
    /\ Called("setup_analysis") = {1}
    /\ Called("setup_analysis_directory_structure") = {}

ScriptEnded == mpc \in {"exit", "reported", "report_raised"}

\* C22: after main has returned, without no_google_report an existing
\* run_info.yaml has been renamed and the report entry point has been called
\* and has returned; with no_google_report the file is as it was and the
\* report entry point is not called.
C22_ReportAfterMain ==
    ScriptEnded =>
        /\ ~no_google_report =>
              /\ run_info_yaml # "present"
              /\ Called("report.main") # {}
              /\ mpc = "reported"
        /\ no_google_report =>
              /\ run_info_yaml # "renamed"
              /\ Called("report.main") = {}

RECURSIVE SumOf(_)
SumOf(ns) == IF ns = <<>> THEN 0 ELSE Head(ns) + SumOf(Tail(ns))

\* C23: when setup_analysis_directory_structure has returned, the list it
\* returned holds one entry for each project of the flowcell and one for each
\* sample.
C23_EntryPerProjectAndSample ==
    (Called("setup_analysis_directory_structure") # {} /\ mpc = "submit") =>
        Len(run_arguments) = Len(projects) + SumOf(projects)

PerSampleFields == {"genome_build", "analysis", "files"}

\* The per-sample fields a lane entry holds both at lane level and in one of
\* its multiplex entries.
AtBothLevels(ln) ==
    {k \in PerSampleFields :
        /\ k \in DOMAIN ln.d
        /\ \E j \in 1..Len(TMux(ln)) : k \in DOMAIN TMux(ln)[j].d}

\* C24: in a derived configuration no lane entry holds one of the per-sample
\* fields genome_build, analysis and files both at lane level and inside its
\* multiplex entries.
C24_LaneShape ==
    bcbb_config # NotDerived =>
        \A ln \in LaneEntries(bcbb_config) : AtBothLevels(ln) = {}

----------------------------------------------------------------------------
(* First match only.                                                       *)

\* The entries of a list that are the first with their value of key k.
FirstOfKey(l, k) ==
    SelectSeq([j \in 1..Len(l) |-> [at |-> j, e |-> l[j]]],
              LAMBDA x : \A i \in 1..(x.at - 1) : TGet(l[i], k) # TGet(x.e, k))

\* A patch entry with, of its multiplex entries, only the first of every
\* sequence.
FirstSequences(pentry) ==
    IF "multiplex" \notin DOMAIN pentry.d THEN pentry
    ELSE LET firsts == FirstOfKey(TMux(pentry), "sequence")
         IN TDict([pentry.d EXCEPT !["multiplex"] =
                      TList([j \in 1..Len(firsts) |-> firsts[j].e])])

\* A patch with only the first entry of every lane value, each with only the
\* first multiplex entry of every sequence.
FirstEntries(patch) ==
    LET firsts == FirstOfKey(patch.l, "lane")
    IN TList([j \in 1..Len(firsts) |-> FirstSequences(firsts[j].e)])

\* The value override_with_custom_config gives for a base and a patch.
OverrideValue(base, patch) ==
    LET a == AllocTree(<<>>, base)
        b == AllocTree(a.h, patch)
        r == override_with_custom_config(b.h, a.v, b.v)
    IN IF r.err THEN TAtom("KeyError") ELSE Deref(r.h, r.v)

\* C25: only the first patch entry of a lane value, and in it only the first
\* multiplex entry of a sequence, has an effect: the result of every call is
\* the result for the patch with the later entries of each lane value and the
\* later multiplex entries of each sequence taken out.
C25_FirstMatchOnly ==
    opc = "called" =>
        calls[1].resT
            = OverrideValue(calls[1].orgT, FirstEntries(calls[1].customT))

\* A lane of the base whose lane value two patch entries have, the second
\* with a key the first has not, the first with two multiplex entries of the
\* sequence of one of the lane's barcodes that set a key differently.
C25_Witness ==
    /\ Len(calls) = 1
    /\ LET c == calls[1]
       IN /\ Len(c.customT.l) = 2
          /\ \E n \in 1..Len(c.orgT.l) :
                LET b == c.orgT.l[n]
                    p == c.customT.l[1]
                    q == c.customT.l[2]
                IN /\ TGet(p, "lane") = b.d["lane"]
                   /\ TGet(q, "lane") = b.d["lane"]
                   /\ DOMAIN q.d \ (DOMAIN p.d \cup DOMAIN b.d) # {}
                   /\ \E s \in 1..Len(TMux(b)) :
                         \E x, y \in 1..Len(TMux(p)) :
                            /\ x < y
                            /\ TSeqMatch(TMux(b)[s], p) = x
                            /\ TGet(TMux(p)[y], "sequence")
                                  = TGet(TMux(p)[x], "sequence")
                            /\ TGet(TMux(p)[y], "analysis")
                                  # TGet(TMux(p)[x], "analysis")
                   /\ c.resT.l[n] # b

\* C26: the result of override_with_custom_config has the structure of the
\* base: as many lane entries, each with the lane value of the base entry at
\* its place, with a multiplex list exactly when the base entry has one, and
\* in it as many barcode entries, each with the sequence (or the lack of one)
\* of the base barcode at its place.  No lane and no barcode of the patch is
\* added.
C26_StructurePreserved ==
    \A i \in 1..Len(calls) :
        LET c == calls[i]
        IN /\ Len(c.resT.l) = Len(c.orgT.l)
           /\ \A n \in 1..Len(c.orgT.l) :
                 LET b == c.orgT.l[n]
                     r == c.resT.l[n]
                 IN /\ r.d["lane"] = b.d["lane"]
                    /\ ("multiplex" \in DOMAIN r.d) = ("multiplex" \in DOMAIN b.d)
                    /\ Len(TMux(r)) = Len(TMux(b))
                    /\ \A s \in 1..Len(TMux(b)) :
                          /\ ("sequence" \in DOMAIN TMux(r)[s].d)
                                = ("sequence" \in DOMAIN TMux(b)[s].d)
                          /\ TGet(TMux(r)[s], "sequence")
                                = TGet(TMux(b)[s], "sequence")

\* A flat base lane matched by a patch entry that has a multiplex list, with a
\* patch entry of a lane the base has not; and a multiplexed base lane matched
\* by a patch entry whose multiplex list has a sequence the lane has not.
C26_Witness ==
    /\ Len(calls) = 1
    /\ LET c == calls[1]
       IN /\ \E n \in 1..Len(c.orgT.l) :
                LET j == TMatch(c.orgT.l[n], c.customT)
                IN /\ j # 0
                   /\ "multiplex" \notin DOMAIN c.orgT.l[n].d
                   /\ "multiplex" \in DOMAIN c.customT.l[j].d
          /\ \E n \in 1..Len(c.orgT.l) :
                LET j == TMatch(c.orgT.l[n], c.customT)
                IN /\ j # 0
                   /\ TMux(c.orgT.l[n]) # <<>>
                   /\ \E q \in 1..Len(TMux(c.customT.l[j])) :
                         \A s \in 1..Len(TMux(c.orgT.l[n])) :
                            TGet(TMux(c.orgT.l[n])[s], "sequence")
                               # TGet(TMux(c.customT.l[j])[q], "sequence")
          /\ \E j \in 1..Len(c.customT.l) :
                \A n \in 1..Len(c.orgT.l) :
                   TGet(c.customT.l[j], "lane") # c.orgT.l[n].d["lane"]

\* C27: override_with_custom_config is idempotent in the patch: the result
\* of a call, overridden once more with the patch of the call, gives a
\* configuration equal to that result.
C27_Idempotent ==
    opc = "called" =>
        LET again == override_with_custom_config(heap, cur, calls[1].custom)
        IN /\ ~again.err
           /\ Deref(again.h, again.v) = Deref(heap, cur)
           /\ Deref(again.h, again.v) = calls[1].resT

\* A call that replaced the file list of a flat lane and the file list of a
\* barcode of a multiplexed lane.
C27_Witness ==
    /\ opc = "called"
    /\ LET c == calls[1]
       IN /\ \E n \in 1..Len(c.orgT.l) :
                /\ TMux(c.orgT.l[n]) = <<>>
                /\ "files" \in DOMAIN c.orgT.l[n].d
                /\ TGet(c.resT.l[n], "files") # TGet(c.orgT.l[n], "files")
          /\ \E n \in 1..Len(c.orgT.l) :
                \E s \in 1..Len(TMux(c.orgT.l[n])) :
                   /\ "files" \in DOMAIN TMux(c.orgT.l[n])[s].d
                   /\ TGet(TMux(c.resT.l[n])[s], "files")
                         # TGet(TMux(c.orgT.l[n])[s], "files")

\* The (date, flowcell, lane, sequence) identity of a sample run.
Identity(rec) == <<rec.date, rec.flowcell, rec.lane, rec.sequence>>

\* C28: when the duplicate check has completed, the sample run list holds
\* exactly one record of every identity (date, flowcell, lane, sequence) the
\* fetched list has, every record of it is a fetched record, and no group
\* holds records of two identities.
C28_OnePerIdentity ==
    rpc = "done" =>
        /\ \A i \in 1..Len(fetched) :
              Cardinality({j \in 1..Len(sample_run_list) :
                              Identity(sample_run_list[j]) = Identity(fetched[i])})
                  = 1
        /\ \A j \in 1..Len(sample_run_list) :
              \E i \in 1..Len(fetched) : sample_run_list[j] = fetched[i]
        /\ \A k \in DOMAIN sample_dict :
              \A a, b \in 1..Len(sample_dict[k]) :
                 Identity(sample_dict[k][a]) = Identity(sample_dict[k][b])

----------------------------------------------------------------------------
(* run_analysis for any work directory: the submitting loop of main with a *)
(* list of run arguments for some directories, begun in some directory.    *)

Dirs == {"start_dir", "work_dir_a", "work_dir_b"}

\* [work_dir, post_process, fc_dir, run_info] for a job to be run in d
ArgumentsIn(d) ==
    [work_dir |-> d, post_process |-> "config", fc_dir |-> "fcdir",
     run_info |-> "run_info"]

ArgumentLists ==
    {[i \in 1..Len(ds) |-> ArgumentsIn(ds[i])] : ds \in SeqUpTo(Dirs, MaxJobs)}

InitRunAnalysis ==
    /\ only_run = TRUE /\ only_setup = FALSE /\ ignore_casava = FALSE
    /\ projects = <<>> /\ pidx = 0 /\ begun = {}
    /\ run_arguments \in ArgumentLists
    /\ jidx = 1
    /\ mcalls = <<>>
    /\ mpc = "submit"
    /\ merr = ""
    /\ parse_fails = FALSE
    /\ no_google_report = TRUE
    /\ run_info_yaml = "absent"
    /\ cwd \in Dirs
    /\ start_dir = ""
    /\ project_run_arguments = <<>>
    /\ sample_run_arguments = <<>>
    /\ IdleOverride /\ IdleDecode /\ IdleMerge /\ IdleSetup /\ IdleDerive
    /\ IdleReconcile

NextRunAnalysis == SubmitJob \/ Finish \/ ExitWithoutReport

SpecRunAnalysis == InitRunAnalysis /\ [][NextRunAnalysis]_vars

\* C29: run_analysis leaves the working directory of the process as it was
\* on entry, however it ends: after every call the process is in the
\* directory the call was entered in.
C29_DirectoryRestored ==
    Called("run_analysis") # {} => cwd = start_dir

----------------------------------------------------------------------------
(* _sample_files_custom_config as line 201 calls it: on the sample_files   *)
(* of a sample that has them.                                              *)

\* A sample with the key line 201 reads.
SampleWithFiles(fs) ==
    [sample_dir |-> "Sample_A", sample_name |-> "A", files |-> fs,
     samplesheet |-> "SampleSheet.csv", sample_files |-> fs]

SamplesWithFiles == {SampleWithFiles(fs) : fs \in SampleFileLists}

InitSampleFiles ==
    /\ \E bt \in ChainBases, ct \in ChainPatches :
          \E base \in {AllocTree(<<>>, bt)} :
              \E cust \in {AllocTree(base.h, ct)} :
                  heap = cust.h /\ cur = base.v /\ custom_config_ref = cust.v
    /\ psamples \in SeqUpTo(SamplesWithFiles, MaxSamples)
    /\ sidx = 1
    /\ calls = <<>>
    /\ opc = "samples"
    /\ emitted = NotWritten
    /\ serr = ""
    /\ IdleDecode /\ IdleMerge /\ IdleRest

SpecSampleFiles == InitSampleFiles /\ [][NextSetup]_vars

\* The loop of line 199 has done its turn for sample i.
TurnDone(i) == sidx > i \/ (opc = "raised" /\ sidx = i)

\* What the first of the sample's files decodes to.
FirstDecoded(i) ==
    _parse_sample_filename(SamplePath(psamples[i]["sample_files"][1]))

\* C30: for a sample with files whose first name decodes,
\* _sample_files_custom_config returns a patch with the decoded Lane as its
\* lane and with the files in exactly one place: in the one multiplex entry,
\* whose sequence is the decoded Index, when the Index is not NoIndex, and at
\* lane level without a multiplex key when it is NoIndex.
C30_PatchHoldsFiles ==
    \A i \in 1..Len(psamples) :
        (/\ TurnDone(i)
         /\ psamples[i]["sample_files"] # <<>>
         /\ FirstDecoded(i).ok) =>
            /\ sidx > i
            /\ LET patch == calls[i].customT
                   f == FirstDecoded(i).fields
               IN /\ patch.kind = "dict"
                  /\ "lane" \in DOMAIN patch.d
                  /\ patch.d["lane"] = TAtom(f["Lane"].n)
                  /\ IF f["Index"] = PStr(NoIndexStr)
                     THEN /\ "files" \in DOMAIN patch.d
                          /\ "multiplex" \notin DOMAIN patch.d
                     ELSE /\ "files" \notin DOMAIN patch.d
                          /\ Len(TMux(patch)) = 1
                          /\ DOMAIN TMux(patch)[1].d = {"sequence", "files"}
                          /\ TMux(patch)[1].d["sequence"] = TAtom(f["Index"].s)

====
